---- MODULE Spec2Model ----
(***************************************************************************)
(* Verification model of the FMC_173 server: the block break/place state   *)
(* machine of src/players/hand.rs, shaped crafting, the inventory          *)
(* interface and the mob path finder.                                      *)
(*                                                                         *)
(* Time is counted in milliseconds.  Break progress, an f32 in the source  *)
(* with 1.0 meaning broken, is counted in thousandths (ProgressOne).       *)
(***************************************************************************)
EXTENDS Integers, Sequences, FiniteSets, TLC

VARIABLES
    phase,          \* which system of the frame runs next
    world,          \* WorldMap: block position -> block kind
    mining_events,  \* MiningEvents resource: position -> event or NoEvent
    elapsed,        \* time between the previous and this run of break_blocks
    being_broken,   \* break_blocks' Local<HashMap<BlockPosition, BreakingBlock>>
    block_updates,  \* BlockUpdate events written and not yet applied
    replaced,       \* per position: Replace-with-air events written so far
    spawned,        \* per position: DroppedItem entities spawned so far
    cadence,        \* the steady clicking of the cadence scenario: who, how often, how many
    inventory,      \* per player: Inventory::held_item_stack()
    right_click,    \* the RightClick message being handled, with the sender's Targets
    occupied,       \* block cells a model's collider reaches into
    interactions,   \* HandInteractions::player_entities, per entity
    item_uses,      \* ItemUses of the handler entities: <<item, player>> pushes
    slots,          \* Inventory of the player at the interface: 36 item stacks
    held_item,      \* HeldInterfaceStack: the stack on the player's cursor
    crafting_input, \* CraftingGrid of the player: 4 item stacks, row by row
    recipe,         \* the Recipe the crafting grid is matched against
    craft_call,     \* a call of Recipe::craft: position, amount argument, result
    world_map,      \* WorldMap the path finder reads: column -> profile
    path_finder,    \* PathFinder component: start, goal, path
    search,         \* locals of a running find_path
    equip_events,   \* InterfaceEquipItem messages the reader of equip_item has not read
    equipped_item,  \* per player: Inventory::equipped_item
    disconnected,   \* players net.disconnect has been called for
    normalizing,    \* Pattern::from at work on the grids of a crafting table
    now,            \* std::time::Instant::now(), in milliseconds
    pickers,        \* per player: position, camera translation, Health::is_dead, Inventory
    dropped_items,  \* per DroppedItem entity: stack, drop_time, pickup_delay, position, ...
    pickup_log,     \* what the last run of item_pickup did: pulls, transfers, despawns
    follower,       \* a mob that follows its path: where it is, what next_node returned
    health,         \* a player's Health: hearts, max, invincibility timer
    health_log,     \* what the last run of change_health did
    mob,            \* a mob: its Health, invincibility timer, colour, sounds
    mob_log,        \* what the last run of damage_mobs did
    blueprints,     \* load_blueprints: the blueprints read from the files, how far loading got
    earth,          \* Earth::generate_chunk: the noise of a column of a chunk, the chunk generated
    mover,          \* the movement plugin of a client: the player's transform, PlayerProperties, keys, blocks
    decoder,        \* BlockState::rotation: the block states decoded last and the rotations they gave
    hunt,           \* hunt_player: the players, a zombie's target, visibility and HandHits, what the last run did
    fragile,        \* fragile_break: a block, the blocks around it, the ChangedBlockEvent not yet read, what the last run did
    breaking,       \* break_blocks: the progress of a block being broken and the model that overlays it
    mobs,           \* update_mob_map: the MobMap, the mobs and the chunks they are in, whether an unwrap failed
    attacking,      \* attack: a zombie, the players around it, the clock, the PlayerDamageEvents of the last run
    respawning,     \* respawn_players: the players, the interface events and RespawnEvents not yet read, the respawns of the last run
    wheat,          \* grow: a wheat block, its Wheat component, the BlockUpdate not yet applied, what the last run did
    registries,     \* ChestRegistry, FurnaceRegistry and CraftingTableRegistry, whether an unwrap of theirs failed
    smelting        \* furnace: a Furnace, the stack its player holds, what the last system run took of the fuel

miningVars == <<phase, world, mining_events, elapsed, being_broken,
                block_updates, replaced, spawned, cadence>>

clickVars == <<inventory, right_click, occupied, interactions, item_uses>>

interfaceVars == <<slots, held_item, crafting_input>>

craftVars == <<recipe, craft_call>>

pathVars == <<world_map, path_finder, search>>

handVars == <<miningVars, clickVars>>

serverVars == <<interfaceVars, craftVars, pathVars>>

equipVars == <<equip_events, equipped_item, disconnected>>

dropVars == <<now, pickers, dropped_items, pickup_log>>

lifeVars == <<health, health_log, mob, mob_log>>

genVars == <<blueprints, earth, mover, decoder, hunt, fragile, breaking, mobs, attacking, respawning, wheat, registries, smelting>>

exceptBlueprints == <<handVars, serverVars, equipVars, normalizing, dropVars, follower,
    lifeVars, earth, mover, decoder, hunt, fragile, breaking, mobs, attacking, respawning, wheat, registries, smelting>>

exceptEarth == <<handVars, serverVars, equipVars, normalizing, dropVars, follower,
    lifeVars, blueprints, mover, decoder, hunt, fragile, breaking, mobs, attacking, respawning, wheat, registries, smelting>>

exceptMover == <<handVars, serverVars, equipVars, normalizing, dropVars, follower,
    lifeVars, blueprints, earth, decoder, hunt, fragile, breaking, mobs, attacking, respawning, wheat, registries, smelting>>

exceptDecoder == <<handVars, serverVars, equipVars, normalizing, dropVars, follower,
    lifeVars, blueprints, earth, mover, hunt, fragile, breaking, mobs, attacking, respawning, wheat, registries, smelting>>

exceptHunt == <<handVars, serverVars, equipVars, normalizing, dropVars, follower,
    lifeVars, blueprints, earth, mover, decoder, fragile, breaking, mobs, attacking, respawning, wheat, registries, smelting>>

exceptFragile == <<handVars, serverVars, equipVars, normalizing, dropVars, follower,
    lifeVars, blueprints, earth, mover, decoder, hunt, breaking, mobs, attacking, respawning, wheat, registries, smelting>>

exceptBreaking == <<handVars, serverVars, equipVars, normalizing, dropVars, follower,
    lifeVars, blueprints, earth, mover, decoder, hunt, fragile, mobs, attacking, respawning, wheat, registries, smelting>>

exceptMobs == <<handVars, serverVars, equipVars, normalizing, dropVars, follower,
    lifeVars, blueprints, earth, mover, decoder, hunt, fragile, breaking, attacking, respawning, wheat, registries, smelting>>

exceptAttacking == <<handVars, serverVars, equipVars, normalizing, dropVars, follower,
    lifeVars, blueprints, earth, mover, decoder, hunt, fragile, breaking, mobs, respawning, wheat, registries, smelting>>

exceptRespawning == <<handVars, serverVars, equipVars, normalizing, dropVars, follower,
    lifeVars, blueprints, earth, mover, decoder, hunt, fragile, breaking, mobs, attacking, wheat, registries, smelting>>

exceptWheat == <<handVars, serverVars, equipVars, normalizing, dropVars, follower,
    lifeVars, blueprints, earth, mover, decoder, hunt, fragile, breaking, mobs, attacking, respawning, registries, smelting>>

exceptRegistries == <<handVars, serverVars, equipVars, normalizing, dropVars, follower,
    lifeVars, blueprints, earth, mover, decoder, hunt, fragile, breaking, mobs, attacking, respawning, wheat, smelting>>

exceptSmelting == <<handVars, serverVars, equipVars, normalizing, dropVars, follower,
    lifeVars, blueprints, earth, mover, decoder, hunt, fragile, breaking, mobs, attacking, respawning, wheat, registries>>

entityVars == <<equipVars, normalizing, dropVars, follower, lifeVars, genVars>>

\* what the systems of one group leave alone
exceptEquip == <<handVars, serverVars, normalizing, dropVars, follower, lifeVars, genVars>>

exceptPattern == <<handVars, serverVars, equipVars, dropVars, follower, lifeVars, genVars>>

exceptDrop == <<handVars, serverVars, equipVars, normalizing, follower, lifeVars, genVars>>

exceptFollow == <<handVars, interfaceVars, craftVars, world_map, search, equipVars,
                  normalizing, dropVars, lifeVars, genVars>>

exceptLife == <<handVars, serverVars, equipVars, normalizing, dropVars, follower, genVars>>

vars == <<miningVars, clickVars, interfaceVars, craftVars, pathVars, entityVars>>

Max(a, b) == IF a > b THEN a ELSE b

\* the element of a set of one
Only(S) == CHOOSE x \in S : TRUE

Min(a, b) == IF a < b THEN a ELSE b

(***************************************************************************)
(* Block and item configuration (BlockConfig / ItemConfig of the assets).  *)
(***************************************************************************)
NoHardness == -1

Positions == {1, 2}
Players == {"a", "b"}

\* block kinds the mining model draws its world from
MiningKinds == {"air", "shrub", "stone", "glass"}

\* BlockConfig::hardness in milliseconds; NoHardness is None (unbreakable)
Hardness(kind) ==
    CASE kind = "air" -> NoHardness
      [] kind = "water" -> NoHardness
      [] kind = "shrub" -> 0
      [] kind = "flower" -> 0
      [] kind = "glass" -> 50
      [] kind = "stone" -> 100
      [] kind = "grass" -> 100
      [] kind = "torch" -> 100
      [] kind = "ore" -> 1000
      [] OTHER -> NoHardness

\* inventory.held_item_stack().item(): player a is bare handed, b holds a pickaxe
HeldTool(player) == IF player = "a" THEN "none" ELSE "pickaxe"

\* ItemConfig::tool_efficiency, 1.0 without a tool
ToolEfficiency(tool, kind) == IF tool = "pickaxe" THEN 2 ELSE 1

\* BlockConfig::drop(tool_config) is Some: stone needs a tool, glass drops nothing
HasDrop(kind, tool) ==
    CASE kind = "stone" -> tool = "pickaxe"
      [] kind = "glass" -> FALSE
      [] OTHER -> TRUE

(***************************************************************************)
(* handle_left_clicks                                                      *)
(***************************************************************************)
NoEvent == [player |-> "nobody", block_id |-> "air"]

\* the first targeted block whose config has a hardness, 0 when there is none
RECURSIVE FirstBreakable(_, _)
FirstBreakable(targets, w) ==
    IF targets = <<>> THEN 0
    ELSE IF Hardness(w[Head(targets)]) # NoHardness THEN Head(targets)
    ELSE FirstBreakable(Tail(targets), w)

\* the for loop over clicks.read(): a later click on a position overwrites
RECURSIVE InsertClicks(_, _, _)
InsertClicks(clicks, events, w) ==
    IF clicks = <<>> THEN events
    ELSE LET click == Head(clicks)
             p == FirstBreakable(click.targets, w)
             inserted == IF p = 0 THEN events
                         ELSE [events EXCEPT ![p] =
                                  [player |-> click.player, block_id |-> w[p]]]
         IN InsertClicks(Tail(clicks), inserted, w)

(***************************************************************************)
(* break_blocks                                                            *)
(***************************************************************************)
ProgressOne == 1000
HoldInterval == 50
RemoveAfter == 500

NoEntry == [progress |-> -1, since |-> 0]

\* (now - prev_hit) > 0.05: too slow to count as holding the button
TooSlow_m(age) == age < HoldInterval
TooSlow(age) == age > HoldInterval

\* (now - prev_hit) / hardness * efficiency; division by a zero hardness is +inf
ProgressGain_m(age, hardness, efficiency) ==
    IF hardness = 0 THEN ProgressOne
    ELSE (age * ProgressOne) \div (hardness * efficiency)
ProgressGain(age, hardness, efficiency) ==
    IF hardness = 0 THEN ProgressOne
    ELSE (age * efficiency * ProgressOne) \div hardness

\* if broken || hardness == 0.0
ShouldBreak_m(broken, hardness) == broken
ShouldBreak(broken, hardness) == broken \/ hardness = 0

\* the closure of being_broken.retain: TRUE when the entry is removed
RemoveEntry_m(entry) == entry.since >= RemoveAfter \/ entry.progress >= ProgressOne
RemoveEntry(entry) == entry.since > RemoveAfter \/ entry.progress >= ProgressOne

\* One position of the mining_events.drain() loop followed by retain.
\* Result: the entry left behind, and whether an update / a drop was emitted.
BreakOne(event, entry, dt) ==
    LET age == entry.since + dt
        aged == IF entry = NoEntry THEN NoEntry ELSE [entry EXCEPT !.since = age]
        hardness == Hardness(event.block_id)
        tool == HeldTool(event.player)
        hit == event # NoEvent /\ hardness # NoHardness
        skipped == hit /\ entry # NoEntry /\ TooSlow(age)
        gained == hit /\ entry # NoEntry /\ ~TooSlow(age)
        progress == IF gained
                    THEN entry.progress
                         + ProgressGain(age, hardness, ToolEfficiency(tool, event.block_id))
                    ELSE entry.progress
        broken == gained /\ progress >= ProgressOne
        breaks == hit /\ ~skipped /\ (entry = NoEntry \/ broken)
                  /\ ShouldBreak(broken, hardness)
        created == hit /\ entry = NoEntry /\ ~ShouldBreak(broken, hardness)
        after == IF created THEN [progress |-> 0, since |-> 0]
                 ELSE IF skipped THEN [entry EXCEPT !.since = 0]
                 ELSE IF gained THEN [progress |-> progress, since |-> 0]
                 ELSE aged
    IN [entry |-> IF after # NoEntry /\ RemoveEntry(after) THEN NoEntry ELSE after,
        update |-> breaks,
        drop |-> breaks /\ HasDrop(event.block_id, tool)]

(***************************************************************************)
(* handle_right_clicks and block_placement                                 *)
(***************************************************************************)
\* block kinds the placement model draws its world from
ClickKinds == {"air", "stone", "grass", "flower"}

\* BlockConfig::is_solid
IsSolid(kind) == kind \in {"stone", "grass", "glass", "ore"}

\* BlockConfig::replaceable
Replaceable(kind) == kind \in {"air", "water", "grass", "flower"}

Faces == {"west", "east"}

\* BlockFace::shift_position
Shift(face, position) == IF face = "west" THEN position - 1 ELSE position + 1

\* BlockConfig::is_placeable(block_face): a torch cannot go on a west face
IsPlaceable(kind, face) == kind # "torch" \/ face # "west"

Items == {"stone", "torch", "seeds", "stick"}

\* ItemConfig::block, "none" for an item bound to no block
ItemBlock(item) ==
    CASE item = "stone" -> "stone"
      [] item = "torch" -> "torch"
      [] OTHER -> "none"

\* ItemRegistry::get(item) is Some: a use handler is registered for the item
HasUseHandler(item) == item \in {"torch", "seeds"}

Entities == {"chest", "mob"}

\* hand_interaction_query.get_mut(entity) is Ok
HasHandInteractions(entity) == entity = "chest"

EmptyStack == [item |-> "none", size |-> 0]

\* largest stack size of the model
MaxStack == 2

\* ItemStack::take(1) of a non-empty stack
TakeOne(stack) ==
    IF stack.size <= 1 THEN EmptyStack ELSE [stack EXCEPT !.size = @ - 1]

NoTarget == [kind |-> "none", position |-> 0, face |-> "none", entity |-> "none"]
NoPlacement == [block_id |-> "none", position |-> 0]

\* the first targeted entity with HandInteractions, "none" without one
RECURSIVE FirstInteractable(_)
FirstInteractable(targets) ==
    IF targets = <<>> THEN "none"
    ELSE IF Head(targets).kind = "entity" /\ HasHandInteractions(Head(targets).entity)
         THEN Head(targets).entity
    ELSE FirstInteractable(Tail(targets))

\* targets.get_first_block(|id| hardness.is_some())
RECURSIVE FirstBlock(_, _)
FirstBlock(targets, w) ==
    IF targets = <<>> THEN NoTarget
    ELSE IF Head(targets).kind = "block"
            /\ Hardness(w[Head(targets).position]) # NoHardness
         THEN Head(targets)
    ELSE FirstBlock(Tail(targets), w)

\* where the new block replaces: the targeted block when replaceable, else the
\* loaded face-adjacent block when that is; 0 for nowhere
ReplacedPosition_m(against, face, position, w) ==
    IF Shift(face, position) \in DOMAIN w /\ Replaceable(w[Shift(face, position)])
    THEN Shift(face, position)
    ELSE 0
ReplacedPosition(against, face, position, w) ==
    IF Replaceable(against) THEN position
    ELSE IF Shift(face, position) \in DOMAIN w
            /\ Replaceable(w[Shift(face, position)])
         THEN Shift(face, position)
    ELSE 0

block_placement(stack, block_id, face, position, w) ==
    IF ~IsSolid(block_id) THEN NoPlacement
    ELSE IF stack.size = 0 THEN NoPlacement
    ELSE IF ItemBlock(stack.item) = "none" THEN NoPlacement
    ELSE IF ~IsPlaceable(ItemBlock(stack.item), face) THEN NoPlacement
    ELSE LET replaced_position == ReplacedPosition(block_id, face, position, w)
         IN IF replaced_position = 0 THEN NoPlacement
            ELSE [block_id |-> ItemBlock(stack.item), position |-> replaced_position]

\* The loop over the models of the replaced cell's chunk: an intersecting
\* collider only `continue`s that loop, so the placement is never given up.
EntityInTheWay(position, cells) == FALSE

\* the ActionOrder loop: the action tried after `action`, given whether it acted
AfterAction_m(action, acted) ==
    CASE action = "Interact" -> IF acted THEN "Done" ELSE "PlaceBlock"
      [] action = "PlaceBlock" -> "UseItem"
      [] OTHER -> "Done"
AfterAction(action, acted) ==
    CASE action = "Interact" -> IF acted THEN "Done" ELSE "PlaceBlock"
      [] action = "PlaceBlock" -> IF acted THEN "Done" ELSE "UseItem"
      [] OTHER -> "Done"

\* One RightClick message through the loop.  Result: the entity interacted
\* with, the placement made, the item whose handler got the player, the stack.
RightClickOutcome(targets, stack, w, cells) ==
    LET entity == FirstInteractable(targets)
        interacts == entity # "none"
        tries_place == AfterAction("Interact", interacts) = "PlaceBlock"
        target == FirstBlock(targets, w)
        placement == IF target = NoTarget THEN NoPlacement
                     ELSE block_placement(stack, w[target.position], target.face,
                                          target.position, w)
        places == /\ tries_place
                  /\ placement # NoPlacement
                  /\ ~EntityInTheWay(placement.position, cells)
        tries_use == tries_place /\ AfterAction("PlaceBlock", places) = "UseItem"
        after_place == IF places THEN TakeOne(stack) ELSE stack
        uses == tries_use /\ after_place.size > 0 /\ HasUseHandler(after_place.item)
    IN [entity |-> IF interacts THEN entity ELSE "none",
        placement |-> IF places THEN placement ELSE NoPlacement,
        used |-> IF uses THEN after_place.item ELSE "none",
        stack |-> after_place]


(***************************************************************************)
(* The frame: handle_left_clicks, then break_blocks, then the world map    *)
(* applies the block updates.                                              *)
(***************************************************************************)
MaxTargets == 2
MaxClicks == 2

\* Targets of a player: the blocks along the view ray, nearest first
TargetLists ==
    {t \in UNION {[1..n -> Positions] : n \in 0..MaxTargets} :
        \A i, j \in DOMAIN t : i # j => t[i] # t[j]}

\* the players whose LeftClick messages arrive in one frame, in arrival order
ClickerLists == UNION {[1..n -> Players] : n \in 0..MaxClicks}

\* frame times of the general model, and the finer ones of the timing model
FrameTimes == {50, 100, 600}
FineTimes == {25, 50, 75, 525}

HandleLeftClicksOn(clicks, dt) ==
    /\ phase = "input"
    /\ mining_events' = InsertClicks(clicks, [p \in Positions |-> NoEvent], world)
    /\ elapsed' = dt
    /\ phase' = "break"
    /\ UNCHANGED <<world, being_broken, block_updates, replaced, spawned, clickVars,
                   serverVars, entityVars>>

ClicksOf(clickers, targets) ==
    [i \in DOMAIN clickers |-> [player |-> clickers[i], targets |-> targets[clickers[i]]]]

HandleLeftClicks ==
    \E targets \in [Players -> TargetLists], clickers \in ClickerLists,
       dt \in FrameTimes :
        /\ HandleLeftClicksOn(ClicksOf(clickers, targets), dt)
        /\ UNCHANGED cadence

HandleLeftClicksFine ==
    \E targets \in [Players -> TargetLists], clickers \in ClickerLists,
       dt \in FineTimes :
        /\ HandleLeftClicksOn(ClicksOf(clickers, targets), dt)
        /\ UNCHANGED cadence

BreakBlocks ==
    /\ phase = "break"
    /\ LET out == [p \in Positions |->
                      BreakOne(mining_events[p], being_broken[p], elapsed)]
       IN /\ being_broken' = [p \in Positions |-> out[p].entry]
          /\ block_updates' = {[position |-> p, block_id |-> "air"] :
                                  p \in {q \in Positions : out[q].update}}
          /\ replaced' = [p \in Positions |->
                             replaced[p] + IF out[p].update THEN 1 ELSE 0]
          /\ spawned' = [p \in Positions |->
                            spawned[p] + IF out[p].drop THEN 1 ELSE 0]
    /\ mining_events' = [p \in Positions |-> NoEvent]
    /\ phase' = "apply"
    /\ UNCHANGED <<world, elapsed, cadence, clickVars, serverVars, entityVars>>

\* the world map takes the frame's BlockUpdate events
ApplyBlockUpdates ==
    /\ phase = "apply"
    /\ world' = [p \in DOMAIN world |->
                    IF \E u \in block_updates : u.position = p
                    THEN (CHOOSE u \in block_updates : u.position = p).block_id
                    ELSE world[p]]
    /\ block_updates' = {}
    /\ phase' = "input"
    /\ UNCHANGED <<mining_events, elapsed, being_broken, replaced, spawned, cadence,
                   clickVars, serverVars, entityVars>>


(***************************************************************************)
(* Item stacks at the inventory interface.  ItemStack is the fmc library's; *)
(* transfer_to and take follow the specification's description of them.    *)
(***************************************************************************)
InterfaceItems == {"planks", "stick"}

\* ItemStack::capacity, the item's stack limit
Capacity(item) == IF item = "stick" THEN 1 ELSE MaxStack

InterfaceStacks ==
    {EmptyStack} \cup {st \in [item : InterfaceItems, size : 1..MaxStack] :
                          st.size <= Capacity(st.item)}

\* ItemStack::remaining_capacity of dst for what src holds
RemainingCapacity(src, dst) ==
    IF dst.size = 0 THEN Capacity(src.item)
    ELSE IF dst.item = src.item THEN Capacity(dst.item) - dst.size
    ELSE 0

\* ItemStack::transfer_to: moves min(n, src.size, dst.remaining_capacity); a stack
\* that runs empty collapses to the canonical empty stack
transfer_to(src, dst, n) ==
    LET moved == IF src.size = 0 THEN 0
                 ELSE Min(Min(n, src.size), RemainingCapacity(src, dst))
    IN IF moved = 0 THEN [src |-> src, dst |-> dst]
       ELSE [src |-> IF src.size = moved THEN EmptyStack
                     ELSE [src EXCEPT !.size = src.size - moved],
             dst |-> [item |-> src.item, size |-> dst.size + moved]]

\* ItemStack::take: removes min(n, size) items
take(stack, n) ==
    IF n >= stack.size THEN EmptyStack ELSE [stack EXCEPT !.size = stack.size - n]

InventoryCapacity == 36
HotbarSize == 9
CraftingSlots == 4

\* TakeItem { index, quantity }: stacks.get_mut(index), then
\* item_stack.transfer_to(&mut held_item, quantity)
TakeItem_m(stacks, held, index, quantity) ==
    IF index >= Len(stacks) THEN [stacks |-> stacks, held |-> held]
    ELSE [stacks |-> [stacks EXCEPT ![index + 1] =
                         transfer_to(stacks[index + 1], held, quantity).src],
          held |-> held]

TakeItem(stacks, held, index, quantity) ==
    IF index >= Len(stacks) THEN [stacks |-> stacks, held |-> held]
    ELSE LET moved == transfer_to(stacks[index + 1], held, quantity)
         IN [stacks |-> [stacks EXCEPT ![index + 1] = moved.src],
             held |-> moved.dst]

\* PlaceItem { index, quantity }: stacks.get_mut(index), then
\* held_item.transfer_to(item_stack, quantity)
PlaceItem(stacks, held, index, quantity) ==
    IF index >= Len(stacks) THEN [stacks |-> stacks, held |-> held]
    ELSE LET moved == transfer_to(held, stacks[index + 1], quantity)
         IN [stacks |-> [stacks EXCEPT ![index + 1] = moved.dst],
             held |-> moved.src]

InterfaceInteraction(kind, stacks, held, index, quantity) ==
    IF kind = "TakeItem" THEN TakeItem(stacks, held, index, quantity)
    ELSE IF kind = "PlaceItem" THEN PlaceItem(stacks, held, index, quantity)
    ELSE [stacks |-> stacks, held |-> held]

\* nothing of the inventory interface is in use
InterfaceIdle ==
    /\ slots = [i \in 1..InventoryCapacity |-> EmptyStack]
    /\ held_item = EmptyStack
    /\ crafting_input = [i \in 1..CraftingSlots |-> EmptyStack]

(***************************************************************************)
(* Shaped recipes: src/items/crafting/shaped.rs                            *)
(***************************************************************************)
\* (grid.len() as f32).sqrt() as usize
GridSize(len) == CHOOSE n \in 0..len : n * n <= len /\ (n + 1) * (n + 1) > len

SetMax(S) == CHOOSE x \in S : \A y \in S : y <= x
\* the least of a set of numbers
SetMin_m(S) == 0

SetMin(S) == CHOOSE x \in S : \A y \in S : x <= y

\* Pattern::from: the smallest grid that holds the items of the crafting grid
PatternFrom_m(grid) ==
    LET grid_size == GridSize(Len(grid))
        at(i, j) == grid[i * grid_size + j + 1]
        filled == {c \in (0..grid_size - 1) \X (0..grid_size - 1) :
                      at(c[1], c[2]).size > 0}
        max_row == SetMax({0} \cup {c[1] : c \in filled})
        max_col == SetMax({0} \cup {c[2] : c \in filled})
        min_row == SetMin({grid_size} \cup {c[1] : c \in filled})
    IN [r \in 1..(max_row + 1 - min_row) |->
           [c \in 1..(max_col + 1) |-> at(min_row + r - 1, c - 1).item]]

PatternFrom(grid) ==
    LET grid_size == GridSize(Len(grid))
        at(i, j) == grid[i * grid_size + j + 1]
        filled == {c \in (0..grid_size - 1) \X (0..grid_size - 1) :
                      at(c[1], c[2]).size > 0}
        max_row == SetMax({0} \cup {c[1] : c \in filled})
        max_col == SetMax({0} \cup {c[2] : c \in filled})
        min_row == SetMin({grid_size} \cup {c[1] : c \in filled})
        min_col == SetMin({grid_size} \cup {c[2] : c \in filled})
    IN [r \in 1..(max_row + 1 - min_row) |->
           [c \in 1..(max_col + 1 - min_col) |->
               at(min_row + r - 1, min_col + c - 1).item]]

RECURSIVE Flatten(_)
Flatten(rows) == IF rows = <<>> THEN <<>> ELSE Head(rows) \o Flatten(Tail(rows))

IsPositive(x) == x > 0

\* required_amount.iter().flatten().filter(|&x| *x > 0)
RequiredOf(r) == SelectSeq(Flatten(r.required_amount), IsPositive)

\* input.iter().filter(|x| !x.is_empty()), as the slots' places in the input
RECURSIVE FilledFrom(_, _)
FilledFrom(input, i) ==
    IF i > Len(input) THEN <<>>
    ELSE (IF input[i].size > 0 THEN <<i>> ELSE <<>>) \o FilledFrom(input, i + 1)

Filled(input) == FilledFrom(input, 1)

\* the pairs zip() yields
Zipped(r, input) == 1..Min(Len(Filled(input)), Len(RequiredOf(r)))

\* amount_can_craft stays u32::MAX exactly when zip() yields no pair: stack sizes
\* are far below u32::MAX
get_craftable_amount(r, input) ==
    LET can_craft == {input[Filled(input)[i]].size \div RequiredOf(r)[i] :
                         i \in Zipped(r, input)}
    IN IF can_craft = {} THEN 0 ELSE SetMin(can_craft) * r.output.size

\* how often the recipe is applied: min(amount / output.size, craftable / output.size)
CraftCount_m(amount, craftable, size) == Min(amount, craftable)

CraftCount(amount, craftable, size) == Min(amount \div size, craftable \div size)

\* Recipe::craft; output EmptyStack stands for None
craft(r, input, requested) ==
    LET amount == CraftCount(requested, get_craftable_amount(r, input), r.output.size)
        filled == Filled(input)
        taken(slot) ==
            IF \E i \in Zipped(r, input) : filled[i] = slot
            THEN LET i == CHOOSE k \in Zipped(r, input) : filled[k] = slot
                 IN take(input[slot], RequiredOf(r)[i] * amount)
            ELSE input[slot]
    IN IF amount = 0 THEN [input |-> input, output |-> EmptyStack]
       ELSE [input |-> [slot \in DOMAIN input |-> taken(slot)],
             output |-> [r.output EXCEPT !.size = amount * r.output.size]]

NoRecipe == [pattern |-> <<>>, required_amount |-> <<>>, output |-> EmptyStack]

NoCraft == [pc |-> "idle", amount |-> 0, output |-> EmptyStack]

\* nothing of the crafting is in use
CraftIdle ==
    /\ recipe = NoRecipe
    /\ craft_call = NoCraft

(***************************************************************************)
(* The mob path finder: src/mobs/pathfinding.rs.  Costs are whole numbers: *)
(* the heuristic is a squared distance between block positions and the     *)
(* move costs of the model's blocks are whole, so the f32 sums are exact.  *)
(* The world map gives every column of blocks a profile: solid below       *)
(* `height`, open above, possibly with water on top of the solid part.     *)
(* Blocks outside the columns or the loaded heights are not loaded.        *)
(***************************************************************************)
Origin == <<0, 0, 0>>

Add(p, q) == <<p[1] + q[1], p[2] + q[2], p[3] + q[3]>>

Up(p, n) == <<p[1], p[2] + n, p[3]>>

Abs(n) == IF n < 0 THEN -n ELSE n

Signum(n) == IF n < 0 THEN -1 ELSE 1

\* the heights of the loaded blocks: those of the small worlds, and those
\* around height 64
LoadedHeights == (0..5) \cup (62..67)

\* WorldMap::get_block
get_block(w, position) ==
    LET column == <<position[1], position[3]>>
    IN IF column \notin DOMAIN w \/ position[2] \notin LoadedHeights THEN "unloaded"
       ELSE IF position[2] < w[column].height THEN "stone"
       ELSE IF position[2] = w[column].height /\ w[column].water THEN "water"
       ELSE "air"

\* BlockConfig::drag().max_element() of the blocks that are not solid
Drag(kind) == IF kind = "water" THEN 1 ELSE 0

\* f32::MAX is beyond the model checker's integers; any number above every cost
\* of the bounded worlds compares alike
F32Max == 1000000000

Infinity == F32Max + 1

\* f32 addition with infinity
Plus(a, b) == IF a = Infinity \/ b = Infinity THEN Infinity ELSE a + b

get_move_cost(w, position) ==
    LET kind == get_block(w, position)
    IN IF kind = "unloaded" \/ IsSolid(kind) THEN Infinity ELSE Drag(kind)

\* position.distance_squared(goal)
get_heuristic_cost(position, goal) ==
    (position[1] - goal[1]) * (position[1] - goal[1])
    + (position[2] - goal[2]) * (position[2] - goal[2])
    + (position[3] - goal[3]) * (position[3] - goal[3])

\* the loop of get_successor: fall until there is ground, at most two blocks
RECURSIVE Fall(_, _, _, _)
Fall(w, position, move_cost, steps) ==
    IF steps > 2 THEN [position |-> position, move_cost |-> Infinity]
    ELSE LET below_cost == get_move_cost(w, Up(position, -(steps + 1)))
         IN IF below_cost = Infinity
            THEN [position |-> Up(position, -steps),
                  move_cost |-> Plus(move_cost, steps)]
            ELSE Fall(w, position, Plus(move_cost, below_cost), steps + 1)

get_successor(w, position, offset, max_steps) ==
    LET target == Add(position, offset)
        move_cost == get_move_cost(w, target)
    IN IF move_cost = Infinity /\ max_steps = 1
       THEN [position |-> Up(target, 1),
             move_cost |-> Plus(get_move_cost(w, Up(target, 1)), 1)]
       ELSE Fall(w, target, move_cost, 0)

\* the offsets of the eight neighbours, straight ones first
Offsets_m == << <<1, 0, 0>>, <<-1, 0, 0>>, <<0, 0, 1>>, <<0, 0, -1>> >>

Offsets == << <<1, 0, 0>>, <<-1, 0, 0>>, <<0, 0, 1>>, <<0, 0, -1>>,
              <<1, 0, 1>>, <<1, 0, -1>>, <<-1, 0, 1>>, <<-1, 0, -1>> >>

Passable(successor) == successor.move_cost # Infinity

\* the successors in the order they are pushed: position, move cost, heuristic cost
get_potential_successors(w, position, goal) ==
    LET above_cost == get_move_cost(w, Up(position, 1))
        max_steps == IF above_cost = Infinity THEN 0 ELSE 1
        all == [k \in DOMAIN Offsets |->
                   Only({[position |-> to.position, move_cost |-> to.move_cost,
                          heuristic_cost |-> get_heuristic_cost(to.position, goal)] :
                         to \in {get_successor(w, position, Offsets[k], max_steps)}})]
    IN SelectSeq(all, Passable)

\* usize::MAX as parent_index
NoParent == -1

\* Successor::cost
Cost(successor) == successor.move_cost + successor.heuristic_cost

\* Ord for Successor: the heap pops the lowest cost, of equals the lowest
\* heuristic cost; which of two equal successors comes first is the heap's affair
PopsBefore(s, t) ==
    \/ Cost(s) < Cost(t)
    \/ Cost(s) = Cost(t) /\ s.heuristic_cost <= t.heuristic_cost

Poppable(queue) == {s \in queue : \A t \in queue : PopsBefore(s, t)}

\* IndexMap: the index of a position, NoParent if it has no entry
IndexOf(node_map, position) ==
    IF \E i \in DOMAIN node_map : node_map[i].position = position
    THEN (CHOOSE i \in DOMAIN node_map : node_map[i].position = position) - 1
    ELSE NoParent

\* the for loop over the successors of the popped node, from the k-th on
RECURSIVE Relax(_, _, _, _, _, _)
Relax(successors, k, popped, node_map, queue, goal) ==
    IF k > Len(successors)
    THEN [node_map |-> node_map, queue |-> queue, found |-> NoParent]
    ELSE LET to == successors[k]
             cost == popped.move_cost + to.move_cost + to.heuristic_cost
             at == IndexOf(node_map, to.position)
             node == [position |-> to.position, parent_index |-> popped.node_index,
                      cost |-> cost]
             node_index == IF at = NoParent THEN Len(node_map) ELSE at
             pushed == queue \cup {[node_index |-> node_index,
                                    move_cost |-> popped.move_cost + to.move_cost,
                                    heuristic_cost |-> to.heuristic_cost]}
         IN IF at # NoParent /\ ~(node_map[at + 1].cost > cost)
            THEN Relax(successors, k + 1, popped, node_map, queue, goal)
            ELSE Only({IF to.position = goal
                       THEN [node_map |-> inserted, queue |-> queue, found |-> node_index]
                       ELSE Relax(successors, k + 1, popped, inserted, more, goal) :
                         inserted \in {IF at = NoParent THEN Append(node_map, node)
                                       ELSE [node_map EXCEPT ![at + 1] = node]},
                         more \in {pushed}})

\* the positions from a node back to the root
RECURSIVE Chain(_, _)
Chain(node_map, index) ==
    IF index = NoParent THEN <<>>
    ELSE <<node_map[index + 1].position>> \o Chain(node_map, node_map[index + 1].parent_index)

set_path_m(path, index, node_map) == path \o Chain(node_map, index)

\* set_path: the chain without its last position, the start.  The accurate goal
\* that replaces path[0] lies in the same block.
set_path(path, index, node_map) ==
    LET pushed == path \o Chain(node_map, index)
    IN SubSeq(pushed, 1, Len(pushed) - 1)

RoundaboutLimit == 25

GiveUp_m(roundabout_limit) == FALSE

GiveUp(roundabout_limit) == roundabout_limit > RoundaboutLimit

\* PathFinder::new
NewPathFinder == [start |-> Origin, goal |-> Origin, path |-> <<>>]

\* the locals of find_path before a call; steps counts the grid lines the direct
\* walk has crossed in x and in z; improvements counts the pops that lowered
\* best_node_cost
NoSearch ==
    [pc |-> "idle", start |-> Origin, goal |-> Origin,
     block_position |-> Origin, steps |-> <<0, 0>>,
     queue |-> {}, node_map |-> <<>>, roundabout_limit |-> 0,
     best_node_index |-> 0, best_node_cost |-> F32Max, improvements |-> 0]

\* nothing of the path finding is in use
PathIdle ==
    /\ world_map = <<>>
    /\ path_finder = NewPathFinder
    /\ search = NoSearch

(***************************************************************************)
(* Equipping a hotbar slot: equip_item of src/players/inventory_interface.rs *)
(***************************************************************************)
InterfacePaths == {"hotbar", "inventory"}

\* indexes an InterfaceEquipItem message can carry: the ends of the hotbar
\* and what lies past it
EquipIndexes == {0, HotbarSize - 1, HotbarSize}

EquipMessages == [player_entity : Players, interface_path : InterfacePaths,
                  index : EquipIndexes]

\* equip_event.index > 8
PastHotbar_m(index) == index > HotbarSize

PastHotbar(index) == index > HotbarSize - 1

\* equip_item: the loop over the unread messages.  `return` leaves the loop at a
\* message for another interface, the messages behind it stay unread
RECURSIVE equip_item(_, _, _)
equip_item(events, equipped, gone) ==
    IF events = <<>> THEN [events |-> events, equipped |-> equipped, gone |-> gone]
    ELSE LET equip_event == Head(events)
         IN IF equip_event.interface_path # "hotbar"
            THEN [events |-> Tail(events), equipped |-> equipped, gone |-> gone]
            ELSE IF PastHotbar(equip_event.index)
            THEN equip_item(Tail(events), equipped,
                            gone \cup {equip_event.player_entity})
            ELSE equip_item(Tail(events),
                            [equipped EXCEPT ![equip_event.player_entity] =
                                                 equip_event.index],
                            gone)

\* Inventory::default, no message, nobody disconnected
EquipIdle ==
    /\ equip_events = <<>>
    /\ equipped_item = [p \in Players |-> 0]
    /\ disconnected = {}

\* no grid is being normalized
NoPattern == <<>>

NoGrid == <<>>

NotNormalizing ==
    [pc |-> "idle", a |-> NoGrid, b |-> NoGrid, pattern_a |-> NoPattern,
     pattern_b |-> NoPattern, placed |-> NoGrid, again |-> NoPattern]

PatternIdle == normalizing = NotNormalizing

(***************************************************************************)
(* Dropped items: item_pickup of src/items/dropped_items.rs.  Lengths are   *)
(* counted in tenths of a metre along the line through the player's feet    *)
(* and camera, squared distances in hundredths of a square metre.           *)
(***************************************************************************)
PickupDelay == 500

\* distance_squared >= 4.0
PullRange == 400

\* distance_squared < 0.1
PickupRange == 10

DroppedIds == {1, 2}

\* player_transform.translation() + camera.translation * 0.8
PlayerPosition(picker) == picker.position + (picker.camera * 8) \div 10

DistanceSquared(item, picker) ==
    (item.position - PlayerPosition(picker)) * (item.position - PlayerPosition(picker))

\* now.duration_since(drop_time) < pickup_delay
Delayed_m(item, time) == FALSE

Delayed(item, time) == time - item.drop_time < item.pickup_delay

\* lines 159-168: a stack of the item with room left, or an empty stack
HasCapacity(inv, stack) ==
    \E k \in DOMAIN inv :
        \/ inv[k].item = stack.item /\ RemainingCapacity(stack, inv[k]) # 0
        \/ inv[k].size = 0

\* lines 196-204: fill the stacks that already have the item, from slot k on.
\* u32::MAX, the quantity asked for, is beyond the model checker's integers; a
\* stack's capacity is as good, no stack holds more
RECURSIVE FillSame(_, _, _)
FillSame(inv, stack, k) ==
    IF k > Len(inv) THEN [inv |-> inv, stack |-> stack]
    ELSE LET moved == IF inv[k].item = stack.item
                      THEN transfer_to(stack, inv[k], Capacity(stack.item))
                      ELSE [src |-> stack, dst |-> inv[k]]
             filled == [inv EXCEPT ![k] = moved.dst]
         IN IF moved.src.size = 0 THEN [inv |-> filled, stack |-> moved.src]
            ELSE FillSame(filled, moved.src, k + 1)

\* lines 212-220: then the empty stacks
RECURSIVE FillEmpty_m(_, _, _)
FillEmpty_m(inv, stack, k) ==
    IF k > Len(inv) THEN [inv |-> inv, stack |-> stack]
    ELSE LET moved == IF inv[k].size = 0
                      THEN transfer_to(stack, inv[k], Capacity(stack.item))
                      ELSE [src |-> stack, dst |-> inv[k]]
             filled == [inv EXCEPT ![k] = moved.dst]
         IN FillEmpty_m(filled, stack, k + 1)

RECURSIVE FillEmpty(_, _, _)
FillEmpty(inv, stack, k) ==
    IF k > Len(inv) THEN [inv |-> inv, stack |-> stack]
    ELSE LET moved == IF inv[k].size = 0
                      THEN transfer_to(stack, inv[k], Capacity(stack.item))
                      ELSE [src |-> stack, dst |-> inv[k]]
             filled == [inv EXCEPT ![k] = moved.dst]
         IN IF moved.src.size = 0 THEN [inv |-> filled, stack |-> moved.src]
            ELSE FillEmpty(filled, moved.src, k + 1)

\* lines 196-225 for one item and one inventory
Fill(inv, stack) ==
    LET same == FillSame(inv, stack, 1)
    IN IF same.stack.size = 0 THEN same ELSE FillEmpty(same.inv, same.stack, 1)

NoLog == [pulls |-> {}, transfers |-> {}, despawns |-> {}]

\* lines 139-227: the items in reach of one player, in the order the model map
\* yields them; run is the state of the run: the pickers, the items, the log
RECURSIVE PickUpItems(_, _, _, _)
PickUpItems(order, player, time, run) ==
    IF order = <<>> THEN run
    ELSE LET id == Head(order)
             item == run.items[id]
             picker == run.pickers[player]
             distance_squared == DistanceSquared(item, picker)
         IN IF Delayed(item, time) \/ distance_squared >= PullRange
            THEN PickUpItems(Tail(order), player, time, run)
            ELSE IF ~HasCapacity(picker.inventory, item.stack)
            THEN run
            ELSE IF ~(distance_squared < PickupRange)
            THEN PickUpItems(Tail(order), player, time,
                     [run EXCEPT !.items[id].toward = player,
                                 !.log.pulls = @ \cup {<<id, player>>}])
            ELSE Only({PickUpItems(Tail(order), player, time,
                          [run EXCEPT
                              !.items[id].toward = player,
                              !.items[id].stack = filled.stack,
                              !.pickers[player].inventory = filled.inv,
                              !.log.pulls = @ \cup {<<id, player>>},
                              !.log.transfers = @ \cup
                                  {[item |-> id, player |-> player,
                                    dropped |-> item.stack, left |-> filled.stack,
                                    before |-> picker.inventory, after |-> filled.inv]},
                              !.log.despawns = IF filled.stack.size = 0
                                               THEN @ \cup {id} ELSE @]) :
                        filled \in {Fill(picker.inventory, item.stack)}})

\* lines 123-228: the players, in the order the query yields them
RECURSIVE item_pickup(_, _, _, _)
item_pickup(players, order, time, run) ==
    IF players = <<>> THEN run
    ELSE item_pickup(Tail(players), order, time,
             IF run.pickers[Head(players)].dead THEN run
             ELSE PickUpItems(order, Head(players), time, run))

\* no player, no dropped item
DropIdle ==
    /\ now = 0
    /\ pickers = <<>>
    /\ dropped_items = <<>>
    /\ pickup_log = NoLog

(***************************************************************************)
(* PathFinder::next_node.  The points of a path that is followed and the    *)
(* position of the mob are counted in quarters of a block, squared          *)
(* distances in sixteenths.                                                 *)
(***************************************************************************)
\* distance_squared(...) >= 0.5
NodeDistance == 8

\* next_position.xz().distance_squared(current_postition.xz())
DistanceSquaredXZ(p, q) ==
    (p[1] - q[1]) * (p[1] - q[1]) + (p[3] - q[3]) * (p[3] - q[3])

FarEnough_m(distance_squared) == distance_squared > NodeDistance

FarEnough(distance_squared) == distance_squared >= NodeDistance

\* next_node: result <<>> stands for None, <<point>> for Some(point)
RECURSIVE next_node(_, _)
next_node(path, current_postition) ==
    IF path = <<>> THEN [path |-> path, result |-> <<>>]
    ELSE LET next_position == path[Len(path)]
         IN IF FarEnough(DistanceSquaredXZ(next_position, current_postition))
            THEN [path |-> path, result |-> <<next_position>>]
            ELSE next_node(SubSeq(path, 1, Len(path) - 1), current_postition)

NoFollower == [position |-> Origin, called |-> FALSE, returned |-> <<>>]

FollowIdle == follower = NoFollower

(***************************************************************************)
(* Health of players and of mobs.  A u32 is U32Bits wide; times are in      *)
(* milliseconds.  An Option is a sequence of at most one element.           *)
(***************************************************************************)
U32Bits == 5

U32Max == 2 ^ U32Bits - 1

saturating_add_m(a, b) == (a + b) % (U32Max + 1)

saturating_add(a, b) == Min(a + b, U32Max)

saturating_sub(a, b) == IF b > a THEN 0 ELSE a - b

\* Timer::from_seconds(duration, TimerMode::Once)
from_seconds(duration) ==
    [duration |-> duration, elapsed |-> 0, finished |-> FALSE, just_finished |-> FALSE]

\* Timer::tick of a timer that runs once
tick(timer, delta) ==
    IF timer.finished THEN [timer EXCEPT !.just_finished = FALSE]
    ELSE IF timer.elapsed + delta >= timer.duration
         THEN [timer EXCEPT !.elapsed = timer.duration, !.finished = TRUE,
                            !.just_finished = TRUE]
         ELSE [timer EXCEPT !.elapsed = timer.elapsed + delta]

\* hearts == 0, of a player's Health and of a mob's
is_dead(h) == h.hearts = 0

is_invincible(h) == h.invincibility # <<>>

\* players: Health::take_damage and Health::heal
take_damage(h, damage) == [h EXCEPT !.hearts = saturating_sub(h.hearts, damage)]

heal(h, healing) == [h EXCEPT !.hearts = Min(saturating_add(h.hearts, healing), h.max)]

\* mobs: Health::new, Health::damage and Health::heal
new(hearts) == [hearts |-> hearts, max |-> hearts]

damage(h, amount) == [h EXCEPT !.hearts = saturating_sub(h.hearts, amount)]

mob_heal(h, healing) == [h EXCEPT !.hearts = Min(saturating_add(h.hearts, healing), h.max)]

\* Health::default
DefaultHearts == 20

\* Timer::from_seconds(0.5, ...) of a damaged player
PlayerInvincibility == 500

NoHealth == [hearts |-> 0, max |-> 0, invincibility |-> <<>>]

NoHealthLog == [ops |-> <<>>, death_interface |-> FALSE, items_dropped |-> FALSE]

Op(name, amount, h) == [op |-> name, amount |-> amount, hearts |-> h.hearts]

\* change_health: the invincibility timer
TickInvincibility(h, delta) ==
    IF h.invincibility = <<>> THEN h
    ELSE LET timer == tick(h.invincibility[1], delta)
         IN [h EXCEPT !.invincibility = IF timer.just_finished THEN <<>> ELSE <<timer>>]

\* change_health: the damage events, in order
RECURSIVE PlayerDamages(_, _, _)
PlayerDamages(h, log, events) ==
    IF events = <<>> THEN [health |-> h, log |-> log]
    ELSE IF is_dead(h) \/ is_invincible(h) THEN PlayerDamages(h, log, Tail(events))
    ELSE LET hurt == take_damage(
                        [h EXCEPT !.invincibility = <<from_seconds(PlayerInvincibility)>>],
                        Head(events))
         IN PlayerDamages(hurt,
                [log EXCEPT !.ops = Append(@, Op("damage", Head(events), hurt)),
                            !.items_dropped = @ \/ is_dead(hurt),
                            !.death_interface = @ \/ is_dead(hurt)],
                Tail(events))

\* change_health: the heal events, in order
RECURSIVE PlayerHeals(_, _, _)
PlayerHeals(h, log, events) ==
    IF events = <<>> THEN [health |-> h, log |-> log]
    ELSE LET healed == heal(h, Head(events))
         IN PlayerHeals(healed,
                [log EXCEPT !.ops = Append(@, Op("heal", Head(events), healed))],
                Tail(events))

change_health(h, delta, damage_events, heal_events) ==
    LET hurt == PlayerDamages(TickInvincibility(h, delta), NoHealthLog, damage_events)
    IN PlayerHeals(hurt.health, hurt.log, heal_events)

\* Health::new(20) of a zombie
MobHearts == 20

INVINCIBILITY_TIME == 500

\* timer.set_duration(Duration::from_secs_f32(1.0)) of a dead mob
DeathTime == 1000

\* (timer.elapsed_secs_f64() / 0.25).min(1.0), in thousandths
FallTime == 250

NoMob == [health |-> new(0), invincibility |-> <<>>, color |-> "none",
          sounds |-> "none", rotation |-> 0, despawned |-> FALSE]

NoMobLog == [ops |-> <<>>, finished |-> FALSE, dead |-> FALSE, sounds |-> <<>>]

Despawns_m(m) == TRUE

\* if mob.is_dead() { commands.entity(mob_entity).despawn(); }
Despawns(m) == is_dead(m.health)

\* damage_mobs, the first loop: the timer of an invincible mob.  The colour
\* inserted by a command and the despawn take effect when the system is done.
MobTimer(m, delta) ==
    IF m.invincibility = <<>>
    THEN [mob |-> m, log |-> NoMobLog, insert |-> FALSE, despawn |-> FALSE]
    ELSE LET dead == is_dead(m.health)
             set == IF dead THEN [m.invincibility[1] EXCEPT !.duration = DeathTime]
                    ELSE m.invincibility[1]
             started == set.elapsed = 0
             red == IF started /\ m.color # "none" THEN "red" ELSE m.color
             timer == tick(set, delta)
             rotation == IF dead THEN Min((timer.elapsed * 1000) \div FallTime, 1000)
                         ELSE m.rotation
         IN IF timer.just_finished
            THEN [mob |-> [m EXCEPT !.invincibility = <<>>,
                                    !.rotation = rotation,
                                    !.color = IF red # "none" THEN "white" ELSE red],
                  log |-> [NoMobLog EXCEPT !.finished = TRUE, !.dead = dead],
                  insert |-> started /\ m.color = "none",
                  despawn |-> Despawns(m)]
            ELSE [mob |-> [m EXCEPT !.invincibility = <<timer>>,
                                    !.rotation = rotation,
                                    !.color = red],
                  log |-> NoMobLog,
                  insert |-> started /\ m.color = "none",
                  despawn |-> FALSE]

\* the sound of a damaged mob, if it has one
MobSound(m) ==
    IF m.sounds = "none" THEN <<>>
    ELSE IF is_dead(m.health) /\ m.sounds # "no_death" THEN <<"death">>
    ELSE IF m.sounds # "no_damage" THEN <<"damage">>
    ELSE <<>>

\* damage_mobs, the second loop: the damage events, in order
RECURSIVE MobDamages(_, _, _)
MobDamages(m, log, events) ==
    IF events = <<>> THEN [mob |-> m, log |-> log]
    ELSE IF m.invincibility # <<>> THEN MobDamages(m, log, Tail(events))
    ELSE LET hurt == [m EXCEPT !.health = damage(m.health, Head(events)),
                               !.invincibility = <<from_seconds(INVINCIBILITY_TIME)>>]
         IN MobDamages(hurt,
                [log EXCEPT !.ops = Append(@, Op("damage", Head(events), hurt.health)),
                            !.sounds = @ \o MobSound(hurt)],
                Tail(events))

damage_mobs(m, delta, events) ==
    LET timed == MobTimer(m, delta)
        hurt == MobDamages(timed.mob, timed.log, events)
    IN [mob |-> [hurt.mob EXCEPT !.color = IF timed.insert THEN "red" ELSE @,
                                 !.despawned = timed.despawn],
        log |-> hurt.log]

LifeIdle ==
    /\ health = NoHealth
    /\ health_log = NoHealthLog
    /\ mob = NoMob
    /\ mob_log = NoMobLog

(***************************************************************************)
(* Blueprints of terrain features.  A JsonBlueprint is a record of its     *)
(* type, the block names of its fields in the order validate reads them,   *)
(* its nested blueprints and its height distribution; an Option is a       *)
(* sequence of at most one element; a probability is counted in hundredths.*)
(***************************************************************************)
None == <<>>

Some(x) == <<x>>

\* the blocks of the block configuration
KnownBlocks == {"stone", "dirt"}

\* Blocks::contains_block
contains_block(block_name) == block_name \in KnownBlocks

NoDistribution == [type |-> "none", min |-> 0, mid |-> 0, max |-> 0, probability |-> 0]

Uniform(min, max, probability) ==
    [type |-> "uniform", min |-> min, mid |-> 0, max |-> max, probability |-> probability]

Triangle(min, mid, max, probability) ==
    [type |-> "triangle", min |-> min, mid |-> mid, max |-> max,
     probability |-> probability]

\* Decoration, Tree and OreVein: the block names of their fields
Feature(type, blocks) ==
    [type |-> type, blocks |-> blocks, blueprints |-> <<>>,
     distribution |-> NoDistribution]

Collection(sub_blueprints) ==
    [type |-> "collection", blocks |-> <<>>, blueprints |-> sub_blueprints,
     distribution |-> NoDistribution]

Distribution(blueprint, distribution) ==
    [type |-> "distribution", blocks |-> <<>>, blueprints |-> <<blueprint>>,
     distribution |-> distribution]

\* AmbiguousJsonBlueprint
Named(name) == [named |-> Some(name), inline |-> None]

Inline(blueprint) == [named |-> None, inline |-> Some(blueprint)]

\* `x?;` in a function that returns an Option: None is returned at once when x
\* is None, and the function goes on when x is Some
Question(x, rest) == IF x = None THEN None ELSE rest

\* a run of `x?;` statements, then the rest of the function
RECURSIVE Questions(_, _)
Questions(xs, rest) ==
    IF xs = <<>> THEN rest ELSE Question(Head(xs), Questions(Tail(xs), rest))

validate_block(block_name) ==
    IF ~contains_block(block_name) THEN Some("no block by that name") ELSE None

\* JsonBlueprint::validate, the match arm of a Distribution after the nested
\* blueprint
ValidateDistribution(d) ==
    IF d.type = "triangle"
    THEN IF d.min > d.mid THEN Some("min must be less than mid")
         ELSE IF d.mid > d.max THEN Some("mid must be less than max")
         ELSE IF d.max < d.min THEN Some("min must be less than max")
         ELSE IF d.probability < 0 \/ d.probability > 100
              THEN Some("probability must be between 0 and 1")
         ELSE None
    ELSE IF d.type = "uniform"
    THEN IF d.max < d.min THEN Some("min must be less than max")
         ELSE IF d.probability < 0 \/ d.probability > 100
              THEN Some("probability must be between 0 and 1")
         ELSE None
    ELSE None

RECURSIVE validate(_, _)
\* AmbiguousJsonBlueprint::validate
validate_ambiguous(blueprint, named_blueprints) ==
    IF blueprint.named # None
    THEN IF blueprint.named[1] \notin DOMAIN named_blueprints
         THEN Some("Reference to nonexistent blueprint")
         ELSE None
    ELSE validate(blueprint.inline[1], named_blueprints)

\* JsonBlueprint::validate
validate(blueprint, named_blueprints) ==
    IF blueprint.type = "collection"
    THEN Questions([i \in DOMAIN blueprint.blueprints |->
                       validate_ambiguous(blueprint.blueprints[i], named_blueprints)],
                   None)
    ELSE IF blueprint.type = "distribution"
    THEN Question(validate_ambiguous(blueprint.blueprints[1], named_blueprints),
                  ValidateDistribution(blueprint.distribution))
    ELSE Questions([i \in DOMAIN blueprint.blocks |-> validate_block(blueprint.blocks[i])],
                   None)

\* Blueprint::new: whether it returns; Blocks::get_id of an unknown name and
\* the index of a missing name in disambiguate panic
RECURSIVE Builds(_, _)
Builds(blueprint, named_blueprints) ==
    /\ \A i \in DOMAIN blueprint.blocks : contains_block(blueprint.blocks[i])
    /\ \A i \in DOMAIN blueprint.blueprints :
          LET sub == blueprint.blueprints[i]
          IN IF sub.named # None
             THEN /\ sub.named[1] \in DOMAIN named_blueprints
                  /\ Builds(named_blueprints[sub.named[1]], named_blueprints)
             ELSE Builds(sub.inline[1], named_blueprints)

NoBlueprints == [named |-> <<>>, pc |-> "idle"]

(***************************************************************************)
(* Terrain generation.  A chunk of the model is one column of ChunkSize    *)
(* cells (Chunk::SIZE is 16 on every axis in the source), with AboveChunk  *)
(* cells of noise over it (TERRAIN_HEIGHT_FACTOR).  Of the density of a    *)
(* cell, after the caves are carved, the model keeps whether it is above   *)
(* 0.  The heights of the continent are whole numbers.  The blocks of a    *)
(* biome go by the names of the biome's fields.                            *)
(***************************************************************************)
ChunkSize == 4

AboveChunk == 2

CHUNK_HEIGHT == ChunkSize + AboveChunk

MAX_HEIGHT == 120

CONTINTENT_MAX == 10

CONTINTENT_MIN == -10

\* the heights at which a solid cell near the surface is sand
SandHeight_m(block_height) == block_height < 2

SandHeight(block_height) == block_height < 2 /\ block_height > CONTINTENT_MIN - 3

\* generate_terrain, "Find how deep we are from above chunk": layer and liquid
\* after the cells y, y - 1, ... ChunkSize of the column
RECURSIVE FromAbove(_, _, _, _)
FromAbove(e, y, layer, liquid) ==
    IF y < ChunkSize THEN [layer |-> layer, liquid |-> liquid]
    ELSE LET block_height == e.chunk_position + y
         IN IF ~e.solid[y + 1]
            THEN FromAbove(e, y - 1, 0,
                           liquid \/ (block_height = 0 /\ e.continent_height < CONTINTENT_MAX))
            ELSE FromAbove(e, y - 1, layer + 1, FALSE)

\* generate_terrain: the block of cell y and the layer and liquid after it
TerrainBlock(e, y, layer, liquid) ==
    LET block_height == e.chunk_position + y
    IN IF ~e.solid[y + 1]
       THEN IF block_height = 0 /\ e.continent_height < CONTINTENT_MAX
            THEN [block |-> "surface_liquid", layer |-> 1, liquid |-> TRUE]
            ELSE IF block_height < 0 /\ liquid
            THEN [block |-> "sub_surface_liquid", layer |-> layer, liquid |-> liquid]
            ELSE [block |-> "air", layer |-> 0, liquid |-> liquid]
       ELSE IF layer > 3
       THEN [block |-> "bottom_layer_block", layer |-> layer + 1, liquid |-> liquid]
       ELSE IF SandHeight(block_height) /\ e.continent_height <= 2
       THEN [block |-> "sand", layer |-> layer + 1, liquid |-> liquid]
       ELSE [block |-> IF layer < 1 /\ block_height >= 0 THEN "top_layer_block"
                       ELSE IF layer < 3 /\ block_height > -1 THEN "mid_layer_block"
                       ELSE "bottom_layer_block",
             layer |-> layer + 1, liquid |-> liquid]

\* generate_terrain: the cells y, y - 1, ... 0 of the column
RECURSIVE TerrainColumn(_, _, _, _, _)
TerrainColumn(e, y, layer, liquid, blocks) ==
    IF y < 0 THEN blocks
    ELSE LET cell == TerrainBlock(e, y, layer, liquid)
         IN TerrainColumn(e, y - 1, cell.layer, cell.liquid,
                          [blocks EXCEPT ![y + 1] = cell.block])

generate_terrain(e) ==
    LET above == FromAbove(e, CHUNK_HEIGHT - 1, 0, FALSE)
    IN TerrainColumn(e, ChunkSize - 1, above.layer, above.liquid,
                     [y \in 1..ChunkSize |-> "air"])

AllAir_m(blocks) == \A i \in DOMAIN blocks : blocks[i] = blocks[1]

\* the test for air chunk uniformity
AllAir(blocks) == \A i \in DOMAIN blocks : blocks[i] = "air"

\* Chunk::make_uniform: every block of the chunk is the one block
make_uniform(block) == [blocks |-> [y \in 1..ChunkSize |-> block], uniform |-> Some(block)]

\* generate_chunk; `features` is what generate_features makes of the terrain
generate_chunk(e, features) ==
    IF MAX_HEIGHT < e.chunk_position THEN make_uniform("air")
    ELSE IF AllAir(generate_terrain(e)) THEN make_uniform("air")
    ELSE [blocks |-> features, uniform |-> None]

NoChunk == [blocks |-> <<>>, uniform |-> None]

NoEarth == [pc |-> "idle", chunk_position |-> 0, continent_height |-> 0, solid |-> <<>>,
            terrain |-> <<>>, chunk |-> NoChunk]

(***************************************************************************)
(* The movement plugin (plugins/movement).  The model is the plane of y    *)
(* and z: the camera looks along +z, x never changes, and a vector is      *)
(* <<y, z>>.  Lengths are in thousandths of a block, velocities in         *)
(* thousandths of a block per second, times in 1/960 s, so that the update *)
(* period 1/60 s and JUMP_TIME are whole numbers.  The f32 arithmetic of   *)
(* the source is done in whole numbers.                                    *)
(***************************************************************************)
SecondUnits == 960

\* set_update_frequency: Some(1.0 / 60.0)
DeltaTime == 16

JUMP_VELOCITY == 9000

GravityY == -32000

\* JUMP_VELOCITY * 1.7 / -GRAVITY.y
JUMP_TIME == (JUMP_VELOCITY * 17 * SecondUnits) \div (10 * (-GravityY))

\* half extents of the player's Aabb: from_min_max((-0.3, 0.0, -0.3), (0.3, 1.8, 0.3))
PlayerHalf == <<900, 300>>

\* what resolve_conflict accepts as a short step up: overlap.y < 0.51
StepUp_m == PlayerHalf[1] + 110

StepUp == 510

\* the most one step up lifts the player: 0.05
SoftStep == 50

\* Friction of the blocks, in hundredths: the surfaces of solid blocks, the
\* drag of water
SurfaceFriction == 90

WaterDrag == 70

\* collision: ((1.0 - friction).powf(4.0)).powf(delta_time), in thousandths
Decay(friction) ==
    IF friction = 0 THEN 1000
    ELSE IF friction = WaterDrag THEN 923
    ELSE 858

Sign(a) == IF a < 0 THEN -1 ELSE 1

Magnitude(a) == IF a < 0 THEN -a ELSE a

\* a * b / c, rounded toward zero
Scale(a, b, c) == Sign(a) * ((Magnitude(a) * b) \div c)

\* v * delta_time
OverTime(v) == <<Scale(v[1], DeltaTime, SecondUnits), Scale(v[2], DeltaTime, SecondUnits)>>

VecAdd(a, b) == <<a[1] + b[1], a[2] + b[2]>>

\* a * 1.01, rounded away from zero
Padded(a) == Sign(a) * (Magnitude(a) + (Magnitude(a) + 99) \div 100)

\* the collider of a block kind: centre, from the middle of the block, and
\* half extents; none for air
HasCollider(kind) == kind \in {"stone", "slab", "water"}

ColliderCentre(kind) == IF kind = "slab" THEN <<-250, 0>> ELSE <<0, 0>>

ColliderHalf(kind) == IF kind = "slab" THEN <<250, 500>> ELSE <<500, 500>>

\* fmc::get_block: the kind of the block, "none" if the chunk is not loaded
GetBlock(blocks, block_pos) ==
    IF block_pos \in DOMAIN blocks THEN blocks[block_pos] ELSE "none"

\* Collider::iter_block_positions of the player at a translation: z outside,
\* y inside, both rising
BlockPositionsAt(translation) ==
    LET min_y == translation[1] \div 1000
        max_y == (translation[1] + 2 * PlayerHalf[1]) \div 1000
        min_z == (translation[2] - PlayerHalf[2]) \div 1000
        max_z == (translation[2] + PlayerHalf[2]) \div 1000
        height == max_y - min_y + 1
        count == (max_z - min_z + 1) * height
    IN [i \in 1..count |-> <<min_y + ((i - 1) % height), min_z + ((i - 1) \div height)>>]

\* Aabb::intersection of the player at a translation with the collider of a
\* block: the overlap with the sign of the distance, None if they are apart
Intersection(translation, block_pos, kind) ==
    LET distance == [a \in 1..2 |->
                        translation[a] + (IF a = 1 THEN PlayerHalf[1] ELSE 0)
                            - (block_pos[a] * 1000 + 500 + ColliderCentre(kind)[a])]
        overlap == [a \in 1..2 |->
                        PlayerHalf[a] + ColliderHalf(kind)[a] - Magnitude(distance[a])]
    IN IF overlap[1] > 0 /\ overlap[2] > 0
       THEN Some(<<Sign(distance[1]) * overlap[1], Sign(distance[2]) * overlap[2]>>)
       ELSE None

\* resolve_conflict: backwards_time on an axis is above 0 and below
\* delta_time + delta_time / 100
ValidAxis(overlap, velocity, a) ==
    /\ velocity[a] # 0
    /\ overlap[a] * velocity[a] < 0
    /\ Magnitude(overlap[a]) * SecondUnits * 100
          < 101 * DeltaTime * Magnitude(velocity[a])

\* resolve_conflict, the last branch: backwards_time is above 0 and below
\* delta_time * 2
LateAxis(overlap, velocity, a) ==
    /\ velocity[a] # 0
    /\ overlap[a] * velocity[a] < 0
    /\ Magnitude(overlap[a]) * SecondUnits < 2 * DeltaTime * Magnitude(velocity[a])

\* resolve_conflict; c holds the properties, move_back and friction.  One of
\* the components of `velocity` is 0, so at most one axis is valid.
resolve_conflict(c, velocity, overlap) ==
    LET p == c.properties
        rubbed == [c EXCEPT !.friction = Max(@, SurfaceFriction)]
    IN IF p.is_grounded[1] /\ overlap[1] > 0 /\ overlap[1] < StepUp
       THEN [rubbed EXCEPT !.move_back[1] = Max(@, Min(SoftStep, Padded(overlap[1]))),
                           !.properties.is_grounded[1] = TRUE,
                           !.properties.velocity[1] = 0]
       ELSE IF ValidAxis(overlap, velocity, 1)
       THEN [rubbed EXCEPT !.move_back[1] = Padded(overlap[1]),
                           !.properties.is_grounded[1] = TRUE,
                           !.properties.velocity[1] = 0]
       ELSE IF ValidAxis(overlap, velocity, 2)
       THEN [rubbed EXCEPT !.move_back[2] = Padded(overlap[2]),
                           !.properties.is_grounded[2] = TRUE,
                           !.properties.velocity[2] = 0]
       ELSE IF LateAxis(overlap, velocity, 1)
       THEN [c EXCEPT !.move_back[1] = @ + Padded(overlap[1])]
       ELSE IF LateAxis(overlap, velocity, 2)
       THEN [c EXCEPT !.move_back[2] = @ + Padded(overlap[2])]
       ELSE c

\* collision: the blocks of one pass from the i-th on; the pass ends at once,
\* and the step with it, at a block that cannot be looked up
RECURSIVE CollideBlocks(_, _, _, _, _, _)
CollideBlocks(c, blocks, positions, i, pos_after_move, velocity) ==
    IF i > Len(positions) \/ c.aborted THEN c
    ELSE LET block_pos == positions[i]
             kind == GetBlock(blocks, block_pos)
             overlap == Intersection(pos_after_move, block_pos, kind)
         IN IF kind = "none" THEN [c EXCEPT !.aborted = TRUE]
            ELSE IF ~HasCollider(kind) \/ overlap = None
            THEN CollideBlocks(c, blocks, positions, i + 1, pos_after_move, velocity)
            ELSE IF kind = "water"
            THEN CollideBlocks([c EXCEPT !.friction = Max(@, WaterDrag),
                                         !.properties.is_swimming = TRUE],
                               blocks, positions, i + 1, pos_after_move, velocity)
            ELSE CollideBlocks(resolve_conflict(c, velocity, overlap[1]),
                               blocks, positions, i + 1, pos_after_move, velocity)

\* collision: one of the two passes, for the velocity of one axis
CollidePass(c, blocks, translation, velocity) ==
    LET pos_after_move == VecAdd(translation, OverTime(velocity))
    IN CollideBlocks(c, blocks, BlockPositionsAt(pos_after_move), 1, pos_after_move,
                     velocity)

\* MovementPlugin::collision: the properties and the translation after it
collision(p, translation, blocks) ==
    LET cleared == [p EXCEPT !.climbing = FALSE,
                             !.is_grounded = <<IF p.velocity[1] # 0 THEN FALSE ELSE @[1],
                                               IF p.velocity[2] # 0 THEN FALSE ELSE @[2]>>]
        sped == [cleared EXCEPT !.velocity = VecAdd(@, OverTime(p.acceleration)),
                                !.is_swimming = FALSE]
        start == [properties |-> sped, move_back |-> <<0, 0>>, friction |-> 0,
                  aborted |-> FALSE]
        vertical == CollidePass(start, blocks, translation, <<sped.velocity[1], 0>>)
        both == CollidePass(vertical, blocks, translation, <<0, sped.velocity[2]>>)
        new_position == VecAdd(VecAdd(translation, OverTime(sped.velocity)), both.move_back)
        slowed == [both.properties EXCEPT
                      !.velocity = <<Scale(@[1], Decay(both.friction), 1000),
                                     Scale(@[2], Decay(both.friction), 1000)>>]
    IN IF both.aborted
       THEN [properties |-> both.properties, translation |-> translation, aborted |-> TRUE]
       ELSE [properties |-> IF p.is_swimming /\ ~slowed.is_swimming
                            THEN [slowed EXCEPT !.velocity[1] = @ + 1500]
                            ELSE slowed,
             translation |-> new_position,
             aborted |-> FALSE]

\* walking_controller, Key::Space: when the player leaves the ground
CanJump_m(p, pressed_keys) ==
    /\ "Space" \in pressed_keys
    /\ ~p.is_swimming
    /\ p.is_grounded[1]

CanJump(p, pressed_keys) ==
    /\ "Space" \in pressed_keys
    /\ ~p.is_swimming
    /\ p.is_grounded[1]
    /\ p.last_jump > JUMP_TIME

\* MovementPlugin::walking_controller, with the camera along +z
walking_controller(p, pressed_keys) ==
    LET jumps == CanJump(p, pressed_keys)
        jumped == IF jumps THEN [p EXCEPT !.last_jump = 0, !.velocity[1] = JUMP_VELOCITY]
                  ELSE p
        forward == IF "KeyW" \in pressed_keys THEN 1 ELSE 0
        vertical == IF p.is_swimming
                    THEN IF "Space" \in pressed_keys THEN 20000 ELSE -10000
                    ELSE GravityY
        horizontal == IF p.is_swimming THEN 40000 * forward
                      ELSE IF p.is_grounded[1] THEN 100000 * forward
                      ELSE IF Magnitude(jumped.velocity[2]) > 2000
                                \/ jumped.velocity[1] < -10000
                      THEN 50000 * forward
                      ELSE 20000 * forward
    IN [properties |-> [jumped EXCEPT !.acceleration = <<vertical, horizontal>>],
        jumped |-> jumps]

\* PlayerProperties::default
DefaultProperties ==
    [acceleration |-> <<0, 0>>, velocity |-> <<0, 0>>, climbing |-> FALSE,
     is_swimming |-> FALSE, is_grounded |-> <<FALSE, FALSE>>, last_jump |-> 0]

NoStep == [aborted |-> FALSE, jumped |-> FALSE, timed |-> DefaultProperties,
           before |-> DefaultProperties, from |-> <<0, 0>>]

NoMover == [properties |-> DefaultProperties, translation |-> <<0, 0>>,
            pressed_keys |-> {}, scene |-> "none", spawn |-> <<0, 0>>, ticks |-> 0,
            jumps |-> <<>>, step |-> NoStep]

(***************************************************************************)
(* BlockState::rotation of the movement plugin.  A rotation is the         *)
(* quaternion that DQuat::from_rotation_y gives, <<x, y, z, w>> in         *)
(* thousandths.                                                            *)
(***************************************************************************)
\* the bits of a block state that the model keeps of the u16
BlockStateBits == 5

BlockStates == 0..(2 ^ BlockStateBits - 1)

IDENTITY == <<0, 0, 0, 1000>>

\* DQuat::from_rotation_y of a quarter turn times `quarters`:
\* (0, sin(angle / 2), 0, cos(angle / 2))
from_rotation_y(quarters) ==
    CASE quarters = 0 -> <<0, 0, 0, 1000>>
      [] quarters = 1 -> <<0, 707, 0, 707>>
      [] quarters = 2 -> <<0, 1000, 0, 0>>
      [] quarters = -1 -> <<0, -707, 0, 707>>

\* self.0 & 0b100 == 0
Upright(state) == (state \div 4) % 2 = 0

rotation_m(state) ==
    IF Upright(state)
    THEN CASE state % 4 = 0 -> from_rotation_y(0)
           [] state % 4 = 1 -> from_rotation_y(1)
           [] state % 4 = 2 -> from_rotation_y(2)
           [] state % 4 = 3 -> from_rotation_y(1)
    ELSE IDENTITY

\* BlockState::rotation
rotation(state) ==
    IF Upright(state)
    THEN CASE state % 4 = 0 -> from_rotation_y(0)
           [] state % 4 = 1 -> from_rotation_y(1)
           [] state % 4 = 2 -> from_rotation_y(2)
           [] state % 4 = 3 -> from_rotation_y(-1)
    ELSE IDENTITY

NoDecoder == [states |-> <<>>, rotations |-> <<>>]

(***************************************************************************)
(* hunt_player of the zombie.  A player is a record of whether its entity  *)
(* is in the query (connected), its game mode, its distance from the       *)
(* zombie in metres and whether the zombie faces it with no solid block    *)
(* between them.                                                           *)
(***************************************************************************)
\* distance_squared(..) > 100.0
HuntRangeSquared == 100

TooFar(player) == player.distance * player.distance > HuntRangeSquared

\* hunt_player: the zombie loses interest in a target
LosesInterest_m(player) == player.game_mode # "Survival"

LosesInterest(player) == TooFar(player) \/ player.game_mode # "Survival"

\* hunt_player: the players a zombie without target may notice
Noticeable(players) ==
    {p \in DOMAIN players :
        /\ players[p].connected
        /\ players[p].game_mode = "Survival"
        /\ ~TooFar(players[p])
        /\ players[p].in_sight}

\* hunt_player, the targets a visible zombie may have after it: the last of the
\* hand hits or a player noticed, dropped if it is gone or of no interest.  The
\* hits are a HashSet and the query yields the players in no fixed order.
hunt_player(players, target, hand_hits) ==
    LET chosen == IF hand_hits # {} THEN {Some(p) : p \in hand_hits}
                  ELSE IF target # None THEN {target}
                  ELSE IF Noticeable(players) = {} THEN {None}
                  ELSE {Some(p) : p \in Noticeable(players)}
    IN {IF t = None THEN None
        ELSE IF ~players[t[1]].connected THEN None
        ELSE IF LosesInterest(players[t[1]]) THEN None
        ELSE t : t \in chosen}

NoHunt == [players |-> <<>>, target |-> None, visible |-> TRUE, hand_hits |-> {},
           processed |-> FALSE, before |-> None, read |-> {}]

(***************************************************************************)
(* fragile_break of the torch.  A block is a record of its id and its      *)
(* block state, an Option of the rotation the state holds, itself an        *)
(* Option of a BlockRotation.                                              *)
(***************************************************************************)
\* the neighbours fragile_break looks at, in its order, and the rotation each
\* is compared with
Sides == <<"right", "left", "front", "back", "top">>

SideRotation(side) ==
    CASE side = "right" -> Some("Right")
      [] side = "left" -> Some("Left")
      [] side = "front" -> Some("Front")
      [] side = "back" -> Some("Back")
      [] side = "top" -> None

Block(id, state) == [id |-> id, state |-> state]

AirBlock == Block("air", None)

\* fragile_break: the block on a side of the changed block is a torch whose
\* state holds the rotation of that side
Attached(block, side) ==
    /\ block.id = "torch"
    /\ block.state # None
    /\ block.state[1] = SideRotation(side)

\* fragile_break for one ChangedBlockEvent: the sides whose block it replaces
\* by air and for which it spawns a DroppedItem
Broken(event) == {i \in DOMAIN Sides : Attached(event.around[i], Sides[i])}

NoChange == [from |-> "air", to |-> "air", around |-> <<>>]

NoFragile == [block |-> "air", around |-> <<>>, events |-> <<>>,
              last |-> NoChange, broken |-> {}, drops |-> 0, ran |-> FALSE]

(***************************************************************************)
(* The overlay of a block that is being broken (break_blocks).  Progress   *)
(* is in thousandths; the texture is the number k of blocks/breaking_k.png *)
(***************************************************************************)
\* the stages of the overlay, a threshold of a tenth each
Stages == 9

StageStep == ProgressOne \div 10

\* break_blocks: prev_progress < k / 10 && progress > k / 10
Crosses(prev_progress, progress, k) ==
    prev_progress < k * StageStep /\ progress > k * StageStep

\* break_blocks: next_texture, the highest stage from 2 on that the hit
\* crossed, None if there is none
next_texture(prev_progress, progress) ==
    LET crossed == {k \in 2..Stages : Crosses(prev_progress, progress, k)}
    IN IF crossed = {} THEN None ELSE Some(SetMax(crossed))

\* break_blocks: the hit makes the model visible
Reveals(prev_progress, progress) ==
    /\ next_texture(prev_progress, progress) = None
    /\ Crosses(prev_progress, progress, 1)

NoBreaking == [pc |-> "none", progress |-> 0, prev_progress |-> 0,
               visible |-> FALSE, texture |-> 0]

(***************************************************************************)
(* The MobMap (mobs/mod.rs).  The two HashMaps are functions whose domain  *)
(* is the set of their keys.                                               *)
(***************************************************************************)
\* HashMap::insert and HashMap::remove
MapInsert(map, key, value) ==
    [k \in DOMAIN map \cup {key} |-> IF k = key THEN value ELSE map[k]]

MapRemove(map, key) == [k \in DOMAIN map \ {key} |-> map[k]]

EmptyMap == [k \in {} |-> {}]

\* MobMap::default
NewMobMap == [position2entities |-> EmptyMap, entity2position |-> EmptyMap]

\* insert_or_move, the case of an entity that changes chunk: the new chunk is
\* looked up after the entity has left the set of the old one
Moved(mob_map, chunk_position, entity, left) ==
    IF chunk_position \in DOMAIN mob_map.position2entities
    THEN [position2entities |->
              [left EXCEPT ![chunk_position] = @ \cup {entity}],
          entity2position |-> MapInsert(mob_map.entity2position, entity, chunk_position),
          ok |-> TRUE, panic |-> FALSE]
    ELSE [position2entities |-> left,
          entity2position |-> mob_map.entity2position,
          ok |-> FALSE, panic |-> FALSE]

\* MobMap::insert_or_move: the map after it, what it returns and whether the
\* unwrap of a missing set panicked
insert_or_move(mob_map, chunk_position, entity) ==
    LET same == [position2entities |-> mob_map.position2entities,
                 entity2position |-> mob_map.entity2position]
    IN IF entity \in DOMAIN mob_map.entity2position
       THEN LET current_chunk_pos == mob_map.entity2position[entity]
            IN IF current_chunk_pos = chunk_position
               THEN same @@ [ok |-> TRUE, panic |-> FALSE]
               ELSE IF current_chunk_pos \notin DOMAIN mob_map.position2entities
               THEN same @@ [ok |-> FALSE, panic |-> TRUE]
               ELSE Moved(mob_map, chunk_position, entity,
                          [mob_map.position2entities EXCEPT
                              ![current_chunk_pos] = @ \ {entity}])
       ELSE IF chunk_position \in DOMAIN mob_map.position2entities
       THEN [position2entities |->
                 [mob_map.position2entities EXCEPT ![chunk_position] = @ \cup {entity}],
             entity2position |-> MapInsert(mob_map.entity2position, entity, chunk_position),
             ok |-> TRUE, panic |-> FALSE]
       ELSE same @@ [ok |-> FALSE, panic |-> FALSE]

\* MobMap::remove: the map after it, the entities it returns, whether an
\* unwrap panicked
MobMapRemove(mob_map, chunk_position) ==
    IF chunk_position \notin DOMAIN mob_map.position2entities
    THEN [position2entities |-> mob_map.position2entities,
          entity2position |-> mob_map.entity2position, entities |-> {}, panic |-> TRUE]
    ELSE LET entities == mob_map.position2entities[chunk_position]
         IN [position2entities |-> MapRemove(mob_map.position2entities, chunk_position),
             entity2position |-> [e \in DOMAIN mob_map.entity2position \ entities |->
                                     mob_map.entity2position[e]],
             entities |-> entities,
             panic |-> ~(entities \subseteq DOMAIN mob_map.entity2position)]

\* update_mob_map, the first loop from the i-th changed mob on: the map, the
\* entities a MobDespawnEvent was written for, whether an unwrap panicked
RECURSIVE MoveMobs(_, _, _, _)
MoveMobs(acc, changed, chunks, i) ==
    IF i > Len(changed) \/ acc.panic THEN acc
    ELSE LET out == insert_or_move(acc, chunks[changed[i]], changed[i])
         IN MoveMobs([position2entities |-> out.position2entities,
                      entity2position |-> out.entity2position,
                      despawned |-> IF out.ok \/ out.panic THEN acc.despawned
                                    ELSE acc.despawned \cup {changed[i]},
                      panic |-> out.panic],
                     changed, chunks, i + 1)

\* update_mob_map, the second loop for one ChunkSimulationEvent
Simulate(acc, event) ==
    IF acc.panic \/ event = None THEN acc
    ELSE IF event[1].start
    THEN [acc EXCEPT !.position2entities = MapInsert(@, event[1].chunk_position, {})]
    ELSE LET out == MobMapRemove(acc, event[1].chunk_position)
         IN [position2entities |-> out.position2entities,
             entity2position |-> out.entity2position,
             despawned |-> acc.despawned \cup out.entities,
             panic |-> out.panic]

NoMobs == [map |-> NewMobMap, chunks |-> <<>>, changed |-> {}, doomed |-> {},
           gone |-> {}, panicked |-> FALSE, ran |-> FALSE]

(***************************************************************************)
(* attack and hide_during_daytime of the zombie.  Distances are whole      *)
(* metres.                                                                 *)
(***************************************************************************)
\* distance_squared(..) < 4.0
AttackRangeSquared == 4

\* attack for one zombie: the PlayerDamageEvents it sends, each with what the
\* zombie was when it sent it
attack(zombie, players) ==
    IF zombie.despawned \/ zombie.target = None THEN {}
    ELSE LET target == zombie.target[1]
         IN IF ~players[target].connected THEN {}
            ELSE IF players[target].distance * players[target].distance
                       < AttackRangeSquared
            THEN {[player_entity |-> target, dead |-> zombie.dead,
                   visible |-> zombie.visible,
                   distance |-> players[target].distance]}
            ELSE {}

\* hide_during_daytime: the visibility of the zombies and the system's Local
hide_during_daytime(zombie, hidden, night_time) ==
    IF ~hidden /\ ~night_time
    THEN [zombie |-> [zombie EXCEPT !.visible = FALSE], hidden |-> TRUE]
    ELSE IF hidden /\ night_time
    THEN [zombie |-> [zombie EXCEPT !.visible = TRUE], hidden |-> FALSE]
    ELSE [zombie |-> zombie, hidden |-> hidden]

NoZombie == [target |-> None, visible |-> FALSE, dead |-> FALSE, despawned |-> FALSE]

NoAttack == [zombie |-> NoZombie, players |-> <<>>, night_time |-> FALSE,
             hidden |-> FALSE, events |-> {}, ran |-> FALSE]

(***************************************************************************)
(* death_interface and respawn_players.  A RespawnEvent carries, beside    *)
(* the player, what the model remembers of its writing: the system that    *)
(* wrote it and the player's hearts then.                                  *)
(***************************************************************************)
\* death_interface for the events of one player's DeathInterface node: a
\* RespawnEvent for every Button
RECURSIVE death_interface(_, _, _)
death_interface(interface_events, player_entity, hearts) ==
    IF interface_events = <<>> THEN <<>>
    ELSE IF Head(interface_events) # "Button"
    THEN death_interface(Tail(interface_events), player_entity, hearts)
    ELSE <<[player_entity |-> player_entity, writer |-> "death_interface",
            hearts |-> hearts]>>
         \o death_interface(Tail(interface_events), player_entity, hearts)

\* respawn_players: every RespawnEvent moves its player to the spawn point and
\* writes a HealEvent of u32::MAX, which heal_players applies
RECURSIVE respawn_players(_, _)
respawn_players(respawn_events, players) ==
    IF respawn_events = <<>> THEN players
    ELSE LET p == Head(respawn_events).player_entity
         IN respawn_players(Tail(respawn_events),
                [players EXCEPT ![p].translation = "spawn",
                                ![p].health = heal(players[p].health, U32Max)])

NoPlayer == [joined |-> FALSE, translation |-> "nowhere", health |-> NoHealth,
             interface_events |-> <<>>]

NoRespawning == [players |-> <<>>, respawn_events |-> <<>>, respawned |-> <<>>]

(***************************************************************************)
(* grow of the wheat.  The blocks wheat_0 .. wheat_6 are named by their    *)
(* number; times are in milliseconds.                                      *)
(***************************************************************************)
\* the blocks setup registers a spawn function for
LastStage == 6

\* Timer::from_seconds(1.0, TimerMode::Repeating)
GrowInterval == 1000

\* Timer::tick of a repeating timer
tick_repeating(timer, delta) ==
    [elapsed |-> (timer.elapsed + delta) % GrowInterval,
     just_finished |-> timer.elapsed + delta >= GrowInterval]

\* grow, the match on wheat.stage: the number of the block asked for
NextBlock(stage) == stage + 1

\* grow for one wheat: the component after the run and the BlockUpdate::Swap
\* it writes, if any
grow(component, delta) ==
    IF component.stage = LastStage
    THEN [component |-> component, swap |-> None, fired |-> FALSE]
    ELSE LET timer == tick_repeating(component.grow_timer, delta)
         IN IF ~timer.just_finished
            THEN [component |-> [component EXCEPT !.grow_timer = timer],
                  swap |-> None, fired |-> FALSE]
            ELSE [component |-> [stage |-> component.stage + 1, grow_timer |-> timer],
                  swap |-> Some(NextBlock(component.stage + 1)), fired |-> TRUE]

\* spawn_wheat_<block>: Wheat { stage, ..default() }
spawn_wheat(block) == [stage |-> block, grow_timer |-> [elapsed |-> 0, just_finished |-> FALSE]]

NoWheat == [block |-> -1, component |-> spawn_wheat(0), update |-> None,
            before |-> -1, fired |-> FALSE, swap |-> None]

(***************************************************************************)
(* ChestRegistry, FurnaceRegistry and CraftingTableRegistry: the three are *)
(* written alike, a map from the block's entity to the players that have   *)
(* its interface open and a map from the player to that block.             *)
(***************************************************************************)
NewRegistry == [block_to_players |-> EmptyMap, player_to_block |-> EmptyMap,
                panicked |-> FALSE]

\* remove_chest, remove_furnace, remove_table
remove_block(registry, block_entity) ==
    IF block_entity \notin DOMAIN registry.block_to_players THEN registry
    ELSE [registry EXCEPT
             !.block_to_players = MapRemove(@, block_entity),
             !.player_to_block =
                 [p \in DOMAIN @ \ registry.block_to_players[block_entity] |-> @[p]]]

\* set_active_*, its first half: the player leaves the block it was with
LeaveOld_m(registry, player_entity) ==
    IF player_entity \notin DOMAIN registry.player_to_block THEN registry
    ELSE [registry EXCEPT !.player_to_block = MapRemove(@, player_entity)]

LeaveOld(registry, player_entity) ==
    IF player_entity \notin DOMAIN registry.player_to_block THEN registry
    ELSE LET old == registry.player_to_block[player_entity]
         IN IF old \notin DOMAIN registry.block_to_players
            THEN [registry EXCEPT !.player_to_block = MapRemove(@, player_entity),
                                  !.panicked = TRUE]
            ELSE [registry EXCEPT
                     !.player_to_block = MapRemove(@, player_entity),
                     !.block_to_players[old] = @ \ {player_entity}]

\* set_active_chest, set_active_furnace, set_active_table
set_active_block(registry, player_entity, block_entity) ==
    LET left == LeaveOld(registry, player_entity)
    IN IF left.panicked THEN left
       ELSE [left EXCEPT
                !.block_to_players =
                    MapInsert(@, block_entity,
                              (IF block_entity \in DOMAIN @ THEN @[block_entity] ELSE {})
                                 \cup {player_entity}),
                !.player_to_block = MapInsert(@, player_entity, block_entity)]

RegistryKinds == {"chest", "furnace", "table"}

NoRegistries == [kind \in RegistryKinds |-> NewRegistry]

(***************************************************************************)
(* The furnace: cold_start, the furnace system and its interface events.   *)
(* Heat, progress and time are counted in units of five seconds.           *)
(***************************************************************************)
\* const SMELT_TIME: f32 = 10.0
SMELT_TIME == 2

\* const HEAT_STAGES: f32 = 12.0
HEAT_STAGES == 12

\* the "fuel" property of coal
FuelHeat == 3

\* recipes.get("smelting").get_output(&mut self.crucible).is_some()
Smeltable(crucible) == crucible.item = "ore" /\ crucible.size > 0

\* items.get_config(&item.id).properties.get("fuel")
FuelProperty(item) == IF item = "coal" THEN Some(FuelHeat) ELSE None

\* Furnace::new
NewFurnace == [crucible |-> EmptyStack, fuel |-> EmptyStack, output |-> EmptyStack,
               progress |-> None, heat |-> 0, heat_max |-> 0, on |-> FALSE]

\* cold_start: self.heat == 0.0
IsCold_m(furnace) == TRUE

IsCold(furnace) == furnace.heat = 0

\* cold_start: the furnace after it and what it took of the fuel, with the heat
\* and the crucible it took it at
cold_start(furnace) ==
    IF ~Smeltable(furnace.crucible)
    THEN [furnace |-> [furnace EXCEPT !.progress = None], takes |-> <<>>]
    ELSE LET started == [furnace EXCEPT !.progress = IF @ = None THEN Some(0) ELSE @]
         IN IF /\ IsCold(started)
               /\ started.fuel.size > 0
               /\ FuelProperty(started.fuel.item) # None
            THEN [furnace |-> [started EXCEPT
                                  !.fuel = take(@, 1),
                                  !.heat = FuelProperty(started.fuel.item)[1],
                                  !.heat_max = FuelProperty(started.fuel.item)[1]],
                  takes |-> <<[heat |-> started.heat,
                               smeltable |-> Smeltable(started.crucible),
                               amount |-> started.fuel.size - take(started.fuel, 1).size]>>]
            ELSE [furnace |-> started, takes |-> <<>>]

\* (self.heat / self.heat_max * HEAT_STAGES).ceil() as usize; 0.0 / 0.0 is NaN,
\* which is cast to 0
heat_stage(furnace) ==
    IF furnace.heat_max = 0 THEN 0
    ELSE (furnace.heat * HEAT_STAGES + furnace.heat_max - 1) \div furnace.heat_max

is_smelting(furnace) == furnace.progress # None /\ furnace.heat # 0

\* the furnace system, lines 259-279: a smelting furnace advances and crafts
Smelt(furnace, delta_secs) ==
    IF ~is_smelting(furnace) THEN [furnace |-> furnace, takes |-> <<>>]
    ELSE LET progress == furnace.progress[1]
             advanced == [furnace EXCEPT !.progress = Some(progress + delta_secs)]
         IN IF ~(progress >= SMELT_TIME) THEN [furnace |-> advanced, takes |-> <<>>]
            ELSE cold_start(
                    [(IF Smeltable(advanced.crucible)
                      THEN [advanced EXCEPT
                               !.crucible = take(@, 1),
                               !.output = [item |-> "ingot", size |-> @.size + 1]]
                      ELSE advanced) EXCEPT !.progress = None])

\* the furnace system for one furnace
furnace(before, delta_secs) ==
    LET prev_heat == heat_stage(before)
        cooled == [before EXCEPT !.heat = Max(before.heat - delta_secs, 0)]
        fuelled == IF cooled.heat = 0 /\ prev_heat # 0 THEN cold_start(cooled)
                   ELSE [furnace |-> cooled, takes |-> <<>>]
        switched == IF fuelled.furnace.heat # 0 /\ ~fuelled.furnace.on
                    THEN [fuelled.furnace EXCEPT !.on = TRUE]
                    ELSE IF fuelled.furnace.heat = 0 /\ fuelled.furnace.on
                    THEN [fuelled.furnace EXCEPT !.on = FALSE]
                    ELSE fuelled.furnace
        smelted == Smelt(switched, delta_secs)
    IN [furnace |-> smelted.furnace, takes |-> fuelled.takes \o smelted.takes]

\* handle_interface_events for one event
handle_interface_events(before, held, kind, path, quantity) ==
    LET moved ==
            IF kind = "TakeItem"
            THEN transfer_to(before[path], held, quantity)
            ELSE IF kind = "PlaceItem" /\ path # "output"
            THEN [src |-> transfer_to(held, before[path], quantity).dst,
                  dst |-> transfer_to(held, before[path], quantity).src]
            ELSE [src |-> before[path], dst |-> held]
        started == cold_start([before EXCEPT ![path] = moved.src])
    IN [furnace |-> started.furnace, takes |-> started.takes, held_item |-> moved.dst]

NoSmelting == [furnace |-> NewFurnace, held_item |-> EmptyStack, picks |-> 0,
               takes |-> <<>>, ran |-> "none"]

EntitiesIdle == EquipIdle /\ PatternIdle /\ DropIdle /\ FollowIdle /\ LifeIdle

\* the systems of terrain, movement and hunting at rest
BlueprintsIdle == blueprints = NoBlueprints

EarthIdle == earth = NoEarth

MoverIdle == mover = NoMover

DecoderIdle == decoder = NoDecoder

HuntIdle == hunt = NoHunt

FragileIdle == fragile = NoFragile

BreakingIdle == breaking = NoBreaking

MobsIdle == mobs = NoMobs

AttackingIdle == attacking = NoAttack

RespawningIdle == respawning = NoRespawning

WheatIdle == wheat = NoWheat

RegistriesIdle == registries = NoRegistries

SmeltingIdle == smelting = NoSmelting

GenIdle == BlueprintsIdle /\ EarthIdle /\ MoverIdle /\ DecoderIdle /\ HuntIdle /\ FragileIdle /\ BreakingIdle /\ MobsIdle /\ AttackingIdle /\ RespawningIdle /\ WheatIdle /\ RegistriesIdle /\ SmeltingIdle

IdleButBlueprints == EntitiesIdle /\ EarthIdle /\ MoverIdle /\ DecoderIdle /\ HuntIdle /\ FragileIdle /\ BreakingIdle /\ MobsIdle /\ AttackingIdle /\ RespawningIdle /\ WheatIdle /\ RegistriesIdle /\ SmeltingIdle

IdleButEarth == EntitiesIdle /\ BlueprintsIdle /\ MoverIdle /\ DecoderIdle /\ HuntIdle /\ FragileIdle /\ BreakingIdle /\ MobsIdle /\ AttackingIdle /\ RespawningIdle /\ WheatIdle /\ RegistriesIdle /\ SmeltingIdle

IdleButMover == EntitiesIdle /\ BlueprintsIdle /\ EarthIdle /\ DecoderIdle /\ HuntIdle /\ FragileIdle /\ BreakingIdle /\ MobsIdle /\ AttackingIdle /\ RespawningIdle /\ WheatIdle /\ RegistriesIdle /\ SmeltingIdle

IdleButDecoder == EntitiesIdle /\ BlueprintsIdle /\ EarthIdle /\ MoverIdle /\ HuntIdle /\ FragileIdle /\ BreakingIdle /\ MobsIdle /\ AttackingIdle /\ RespawningIdle /\ WheatIdle /\ RegistriesIdle /\ SmeltingIdle

IdleButHunt == EntitiesIdle /\ BlueprintsIdle /\ EarthIdle /\ MoverIdle /\ DecoderIdle /\ FragileIdle /\ BreakingIdle /\ MobsIdle /\ AttackingIdle /\ RespawningIdle /\ WheatIdle /\ RegistriesIdle /\ SmeltingIdle

IdleButFragile == EntitiesIdle /\ BlueprintsIdle /\ EarthIdle /\ MoverIdle /\ DecoderIdle /\ HuntIdle /\ BreakingIdle /\ MobsIdle /\ AttackingIdle /\ RespawningIdle /\ WheatIdle /\ RegistriesIdle /\ SmeltingIdle

IdleButBreaking == EntitiesIdle /\ BlueprintsIdle /\ EarthIdle /\ MoverIdle /\ DecoderIdle /\ HuntIdle /\ FragileIdle /\ MobsIdle /\ AttackingIdle /\ RespawningIdle /\ WheatIdle /\ RegistriesIdle /\ SmeltingIdle

IdleButMobs == EntitiesIdle /\ BlueprintsIdle /\ EarthIdle /\ MoverIdle /\ DecoderIdle /\ HuntIdle /\ FragileIdle /\ BreakingIdle /\ AttackingIdle /\ RespawningIdle /\ WheatIdle /\ RegistriesIdle /\ SmeltingIdle

IdleButAttacking == EntitiesIdle /\ BlueprintsIdle /\ EarthIdle /\ MoverIdle /\ DecoderIdle /\ HuntIdle /\ FragileIdle /\ BreakingIdle /\ MobsIdle /\ RespawningIdle /\ WheatIdle /\ RegistriesIdle /\ SmeltingIdle

IdleButRespawning == EntitiesIdle /\ BlueprintsIdle /\ EarthIdle /\ MoverIdle /\ DecoderIdle /\ HuntIdle /\ FragileIdle /\ BreakingIdle /\ MobsIdle /\ AttackingIdle /\ WheatIdle /\ RegistriesIdle /\ SmeltingIdle

IdleButWheat == EntitiesIdle /\ BlueprintsIdle /\ EarthIdle /\ MoverIdle /\ DecoderIdle /\ HuntIdle /\ FragileIdle /\ BreakingIdle /\ MobsIdle /\ AttackingIdle /\ RespawningIdle /\ RegistriesIdle /\ SmeltingIdle

IdleButRegistries == EntitiesIdle /\ BlueprintsIdle /\ EarthIdle /\ MoverIdle /\ DecoderIdle /\ HuntIdle /\ FragileIdle /\ BreakingIdle /\ MobsIdle /\ AttackingIdle /\ RespawningIdle /\ WheatIdle /\ SmeltingIdle

IdleButSmelting == EntitiesIdle /\ BlueprintsIdle /\ EarthIdle /\ MoverIdle /\ DecoderIdle /\ HuntIdle /\ FragileIdle /\ BreakingIdle /\ MobsIdle /\ AttackingIdle /\ RespawningIdle /\ WheatIdle /\ RegistriesIdle

\* nothing of the entities' systems is in use
EntityIdle == EntitiesIdle /\ GenIdle

NoClick == [player |-> "nobody", targets |-> <<>>]

\* nothing of the right-click handling is in use
ClickIdle ==
    /\ inventory = [p \in Players |-> EmptyStack]
    /\ right_click = NoClick
    /\ occupied = {}
    /\ interactions = [e \in Entities |-> <<>>]
    /\ item_uses = <<>>

\* nothing of the mining is in use
MiningIdle ==
    /\ mining_events = [p \in Positions |-> NoEvent]
    /\ elapsed = 0
    /\ being_broken = [p \in Positions |-> NoEntry]
    /\ block_updates = {}
    /\ replaced = [p \in Positions |-> 0]
    /\ spawned = [p \in Positions |-> 0]
    /\ cadence = [player |-> "a", interval |-> 0, hits |-> 0]

MiningInit ==
    /\ EntityIdle
    /\ phase = "input"
    /\ world \in [Positions -> MiningKinds]
    /\ MiningIdle
    /\ ClickIdle
    /\ InterfaceIdle /\ CraftIdle /\ PathIdle

MiningNext == HandleLeftClicks \/ BreakBlocks \/ ApplyBlockUpdates

SpecMining == MiningInit /\ [][MiningNext]_vars

\* the timing model: one breakable block, finer frame times
TimingInit ==
    /\ EntityIdle
    /\ MiningInit
    /\ world[1] \in {"stone", "glass"}
    /\ world[2] \in {"air", "shrub"}

TimingNext == HandleLeftClicksFine \/ BreakBlocks \/ ApplyBlockUpdates

SpecTiming == TimingInit /\ [][TimingNext]_vars

\* the cadence model: one player clicks a block of hardness 1.0 once per frame,
\* every frame taking the same time
MaxHits == 45

CadenceIntervals == {25, 40, 50, 100, 200}

CadenceInit ==
    /\ EntityIdle
    /\ phase = "input"
    /\ world = [p \in Positions |-> IF p = 1 THEN "ore" ELSE "air"]
    /\ mining_events = [p \in Positions |-> NoEvent]
    /\ elapsed = 0
    /\ being_broken = [p \in Positions |-> NoEntry]
    /\ block_updates = {}
    /\ replaced = [p \in Positions |-> 0]
    /\ spawned = [p \in Positions |-> 0]
    /\ cadence \in [player : Players, interval : CadenceIntervals, hits : {0}]
    /\ ClickIdle
    /\ InterfaceIdle /\ CraftIdle /\ PathIdle

HandleLeftClicksSteady ==
    /\ cadence.hits < MaxHits
    /\ HandleLeftClicksOn(<<[player |-> cadence.player, targets |-> <<1>>]>>,
                          cadence.interval)
    /\ cadence' = [cadence EXCEPT !.hits = @ + 1]

CadenceNext == HandleLeftClicksSteady \/ BreakBlocks \/ ApplyBlockUpdates

SpecCadence == CadenceInit /\ [][CadenceNext]_vars

(***************************************************************************)
(* The right-click frame: a RightClick message arrives, handle_right_clicks *)
(* reads it, the world map applies the block update.                       *)
(***************************************************************************)
Stacks == {EmptyStack} \cup [item : Items, size : 1..MaxStack]

BlockTargets == [kind : {"block"}, position : Positions, face : Faces, entity : {"none"}]
EntityTargets == [kind : {"entity"}, position : {0}, face : {"none"}, entity : Entities]

\* Targets of the clicking player: blocks and entities along the view ray
RayLists == UNION {[1..n -> BlockTargets \cup EntityTargets] : n \in 0..MaxTargets}

\* the network delivers a RightClick; last frame's pushes have been read
RightClickArrives ==
    /\ phase = "input"
    /\ \E player \in Players, targets \in RayLists, cells \in SUBSET Positions :
          /\ right_click' = [player |-> player, targets |-> targets]
          /\ occupied' = cells
    /\ interactions' = [e \in Entities |-> <<>>]
    /\ item_uses' = <<>>
    /\ phase' = "rightclick"
    /\ UNCHANGED <<world, block_updates, inventory, mining_events, elapsed,
                   being_broken, replaced, spawned, cadence, serverVars, entityVars>>

HandleRightClicks ==
    /\ phase = "rightclick"
    /\ LET player == right_click.player
           out == RightClickOutcome(right_click.targets, inventory[player], world,
                                    occupied)
       IN /\ inventory' = [inventory EXCEPT ![player] = out.stack]
          /\ interactions' = [e \in Entities |->
                                 IF e = out.entity THEN <<player>> ELSE <<>>]
          /\ item_uses' = IF out.used = "none" THEN <<>> ELSE <<<<out.used, player>>>>
          /\ block_updates' = IF out.placement = NoPlacement THEN {}
                              ELSE {[position |-> out.placement.position,
                                     block_id |-> out.placement.block_id]}
    /\ right_click' = NoClick
    /\ occupied' = {}
    /\ phase' = "apply"
    /\ UNCHANGED <<world, mining_events, elapsed, being_broken, replaced, spawned,
                   cadence, serverVars, entityVars>>

ClickInit ==
    /\ EntityIdle
    /\ phase = "input"
    /\ world \in [Positions -> ClickKinds]
    /\ MiningIdle
    /\ inventory \in [Players -> Stacks]
    /\ inventory["b"] = EmptyStack
    /\ right_click = NoClick
    /\ occupied = {}
    /\ interactions = [e \in Entities |-> <<>>]
    /\ item_uses = <<>>
    /\ InterfaceIdle /\ CraftIdle /\ PathIdle

ClickNext == RightClickArrives \/ HandleRightClicks \/ ApplyBlockUpdates

SpecClick == ClickInit /\ [][ClickNext]_vars

(***************************************************************************)
(* The inventory interface: one InterfaceInteraction read by the handler of *)
(* the node it was sent to.                                                *)
(***************************************************************************)
InteractionKinds == {"TakeItem", "PlaceItem"}

\* the index field of the messages: in and out of each node's range
Indexes == {0, 26, 27, 36}

MaxQuantity == 3

\* the quantity field: nothing, one item, or more than a stack holds
Quantities == {0, 1, MaxQuantity}

\* handle_inventory_events: the inventory node shows the slots after the hotbar
handle_inventory_events ==
    \E kind \in InteractionKinds, index \in Indexes, quantity \in Quantities :
        LET out == InterfaceInteraction(kind, slots, held_item, index + HotbarSize,
                                        quantity)
        IN /\ slots' = out.stacks
           /\ held_item' = out.held
           /\ UNCHANGED <<crafting_input, craftVars, pathVars, handVars, entityVars>>

handle_hotbar_events ==
    \E kind \in InteractionKinds, index \in Indexes, quantity \in Quantities :
        LET out == InterfaceInteraction(kind, slots, held_item, index, quantity)
        IN /\ slots' = out.stacks
           /\ held_item' = out.held
           /\ UNCHANGED <<crafting_input, craftVars, pathVars, handVars, entityVars>>

handle_crafting_input_events ==
    \E kind \in InteractionKinds, index \in Indexes, quantity \in Quantities :
        LET out == InterfaceInteraction(kind, crafting_input, held_item, index,
                                        quantity)
        IN /\ crafting_input' = out.stacks
           /\ held_item' = out.held
           /\ UNCHANGED <<slots, craftVars, pathVars, handVars, entityVars>>

InterfaceInit ==
    /\ EntityIdle
    /\ slots \in {[i \in 1..InventoryCapacity |->
                      IF i = 1 THEN first
                      ELSE IF i = HotbarSize + 1 THEN [item |-> "planks", size |-> 1]
                      ELSE EmptyStack] :
                  first \in InterfaceStacks}
    /\ held_item \in {EmptyStack, [item |-> "stick", size |-> 1]}
    /\ crafting_input = [i \in 1..CraftingSlots |-> EmptyStack]
    /\ phase = "input"
    /\ world = [p \in Positions |-> "air"]
    /\ MiningIdle /\ ClickIdle /\ CraftIdle /\ PathIdle

InterfaceNext ==
    \/ handle_inventory_events
    \/ handle_hotbar_events
    \/ handle_crafting_input_events

SpecInterface == InterfaceInit /\ [][InterfaceNext]_vars

(***************************************************************************)
(* Crafting: Recipe::craft applied to a crafting grid that matches the     *)
(* recipe's pattern, as RecipeCollection::craft applies it.                *)
(***************************************************************************)
MaxRequired == 2
MaxOutput == 2
MaxAmount == 4

\* crafting grids holding one kind of item
CraftingGrids == [1..CraftingSlots -> {EmptyStack} \cup [item : {"planks"}, size : 1..MaxStack]]

\* load_recipes: an empty pattern cell requires 0, a cell with an item its amount
Recipes ==
    UNION {
        {[pattern |-> PatternFrom(grid), required_amount |-> required, output |-> output] :
            required \in {q \in [DOMAIN PatternFrom(grid) ->
                                    [DOMAIN PatternFrom(grid)[1] -> 0..MaxRequired]] :
                             \A r \in DOMAIN q : \A c \in DOMAIN q[r] :
                                 (q[r][c] = 0) <=> (PatternFrom(grid)[r][c] = "none")},
            output \in [item : {"stick"}, size : 1..MaxOutput]} :
        grid \in {g \in CraftingGrids : PatternFrom(g) # <<>>}}

\* the amount argument: small ones, and the two the player may read off the output
CraftAmounts ==
    LET k == get_craftable_amount(recipe, crafting_input)
    IN (0..MaxAmount) \cup {k, k * recipe.output.size}

\* RecipeCollection::craft finds the recipe by the grid's pattern
CraftRequested ==
    /\ craft_call.pc = "idle"
    /\ PatternFrom(crafting_input) = recipe.pattern
    /\ \E amount \in CraftAmounts :
          craft_call' = [pc |-> "requested", amount |-> amount, output |-> EmptyStack]
    /\ UNCHANGED <<recipe, slots, held_item, crafting_input, pathVars, handVars, entityVars>>

Craft ==
    /\ craft_call.pc = "requested"
    /\ LET out == craft(recipe, crafting_input, craft_call.amount)
       IN /\ crafting_input' = out.input
          /\ craft_call' = [craft_call EXCEPT !.pc = "crafted", !.output = out.output]
    /\ UNCHANGED <<recipe, slots, held_item, pathVars, handVars, entityVars>>

\* the caller has taken the result
CraftReturned ==
    /\ craft_call.pc = "crafted"
    /\ craft_call' = NoCraft
    /\ UNCHANGED <<recipe, interfaceVars, pathVars, handVars, entityVars>>

CraftInit ==
    /\ EntityIdle
    /\ recipe \in Recipes
    /\ crafting_input \in CraftingGrids
    /\ PatternFrom(crafting_input) = recipe.pattern
    /\ craft_call = NoCraft
    /\ slots = [i \in 1..InventoryCapacity |-> EmptyStack]
    /\ held_item = EmptyStack
    /\ phase = "input"
    /\ world = [p \in Positions |-> "air"]
    /\ MiningIdle /\ ClickIdle /\ PathIdle

CraftNext == CraftRequested \/ Craft \/ CraftReturned

SpecCraft == CraftInit /\ [][CraftNext]_vars

(***************************************************************************)
(* find_path, a loop iteration at a time: the entry, the direct walk of    *)
(* find_direct_path, the search loop.  Start and goal are the centres of   *)
(* their blocks.                                                           *)
(***************************************************************************)
Flat == [height |-> 2, water |-> FALSE]
Wall == [height |-> 4, water |-> FALSE]

\* what a column of a small world can be instead of flat ground: a hole, a dip,
\* a block to jump on, a wall, water
Obstacles == {[height |-> 0, water |-> FALSE], [height |-> 1, water |-> FALSE],
              [height |-> 3, water |-> FALSE], Wall, [height |-> 2, water |-> TRUE]}

SmallColumns == (0..2) \X (0..1)

MaxObstacles == 2

SmallWorlds ==
    {[c \in SmallColumns |-> IF c \in DOMAIN changes THEN changes[c] ELSE Flat] :
        changes \in UNION {[S -> Obstacles] :
                              S \in {T \in SUBSET SmallColumns :
                                        Cardinality(T) <= MaxObstacles}}}

\* a corridor between walls: from the start away from the goal and back around a
\* wall, then towards the goal at <<0, 0>> along a diagonal, a row and a column
Corridor(detour) ==
    {<<10 + i, -2>> : i \in 0..detour} \cup {<<11 + detour, -1>>}
    \cup {<<10 + i, 0>> : i \in 1..detour}
    \cup {<<10 - i, i>> : i \in 0..3} \cup {<<x, 3>> : x \in 1..6}
    \cup {<<0, z>> : z \in 0..2}

CorridorWorld(detour) ==
    [c \in (-1..(12 + detour)) \X (-3..4) |->
        IF c \in Corridor(detour) THEN Flat ELSE Wall]

\* detours the roundabout limit lets through, and one it does not
Detours == {11, 12, 13}

IsCorridor(w) == <<10, -2>> \in DOMAIN w

\* flat ground to stand on at height 64 with solid blocks at <<2, 64, 0>> and
\* <<2, 65, 0>>
WalledWorld ==
    [c \in (-2..7) \X (-3..3) |->
        IF c = <<2, 0>> THEN [height |-> 66, water |-> FALSE]
        ELSE [height |-> 64, water |-> FALSE]]

IsWalled(w) == <<-2, 0>> \in DOMAIN w

\* where a mob stands in a column
Standing(w, column) == <<column[1], w[column].height, column[2]>>

Starts(w) == IF IsCorridor(w) THEN {Standing(w, <<10, -2>>)}
             ELSE {Standing(w, <<0, 0>>)}

WalledGoal == <<5, 64, 0>>

\* goals on the ground, and in the air above the start and above the far corner
Goals(w) == IF IsCorridor(w) THEN {Standing(w, <<0, 0>>)}
            ELSE IF IsWalled(w) THEN {WalledGoal}
            ELSE {Standing(w, c) : c \in SmallColumns}
                 \cup {Up(Standing(w, c), 1) : c \in {<<0, 0>>, <<2, 1>>}}

\* lines 50-72: the search starts from the start block
StartSearch(s) ==
    [s EXCEPT !.pc = "search",
              !.node_map = <<[position |-> s.start, parent_index |-> NoParent,
                              cost |-> 0]>>,
              !.queue = {[node_index |-> 0, move_cost |-> 0,
                          heuristic_cost |-> F32Max]},
              !.roundabout_limit = 0,
              !.best_node_index = 0,
              !.best_node_cost = F32Max]

\* find_path up to the call of find_direct_path
FindPath ==
    /\ search.pc = "idle"
    /\ \E start \in Starts(world_map), goal \in Goals(world_map) :
          IF start # goal /\ path_finder.goal # goal
          THEN /\ path_finder' = [start |-> start, goal |-> goal, path |-> <<>>]
               /\ search' = [search EXCEPT !.pc = "direct", !.start = start,
                                           !.goal = goal, !.block_position = start,
                                           !.steps = <<0, 0>>]
          ELSE /\ search' = [search EXCEPT !.pc = "done", !.start = start,
                                           !.goal = goal]
               /\ UNCHANGED path_finder
    /\ UNCHANGED <<world_map, interfaceVars, craftVars, handVars, entityVars>>

Delta == <<search.goal[1] - search.start[1], search.goal[2] - search.start[2],
           search.goal[3] - search.start[3]>>

\* distance_next of an axis after n crossings is (2n + 1) / (2|d|) of the way to
\* the goal.  The axis stepped is the one with the smaller distance_next, x when
\* both are equal; quotients that are equal as real numbers need not be equal as
\* floats unless both axes compute the same numbers.
NextAxes ==
    LET dx == Abs(Delta[1])
        dz == Abs(Delta[3])
        x_next == (2 * search.steps[1] + 1) * dz
        z_next == (2 * search.steps[2] + 1) * dx
    IN IF dx = 0 /\ dz = 0 THEN {}
       ELSE IF dz = 0 THEN {"x"}
       ELSE IF dx = 0 THEN {"z"}
       ELSE IF x_next < z_next THEN {"x"}
       ELSE IF x_next > z_next THEN {"z"}
       ELSE IF dx = dz THEN {"x"}
       ELSE {"x", "z"}

\* (distance_next.min_element() * forward).length_squared(), and
\* start.distance_squared(goal), both times 4 d^2 / |forward|^2
Walked(axis) ==
    LET n == IF axis = "x" THEN search.steps[1] ELSE search.steps[2]
    IN (2 * n + 1) * (2 * n + 1)
       * (Delta[1] * Delta[1] + Delta[3] * Delta[3])

ToWalk(axis) ==
    LET d == IF axis = "x" THEN Delta[1] ELSE Delta[3]
    IN 4 * d * d * (Delta[1] * Delta[1] + Delta[2] * Delta[2] + Delta[3] * Delta[3])

\* one iteration of the loop of find_direct_path, or its end
DirectWalk ==
    /\ search.pc = "direct"
    /\ \/ /\ \/ NextAxes = {}
             \/ \E axis \in NextAxes : Walked(axis) >= ToWalk(axis)
          /\ search' = StartSearch(search)
          /\ UNCHANGED path_finder
       \/ \E axis \in NextAxes :
             /\ Walked(axis) <= ToWalk(axis)
             /\ LET at == search.block_position
                    block_position ==
                        IF axis = "x" THEN <<at[1] + Signum(Delta[1]), at[2], at[3]>>
                        ELSE <<at[1], at[2], at[3] + Signum(Delta[3])>>
                    steps == IF axis = "x"
                             THEN <<search.steps[1] + 1, search.steps[2]>>
                             ELSE <<search.steps[1], search.steps[2] + 1>>
                    above_cost == get_move_cost(world_map, Up(block_position, 1))
                    cost == get_move_cost(world_map, block_position)
                    below_cost == get_move_cost(world_map, Up(block_position, -1))
                    second_below_cost == get_move_cost(world_map, Up(block_position, -2))
                    walked == [search EXCEPT !.steps = steps]
                IN IF block_position = search.goal
                   THEN /\ path_finder' = [path_finder EXCEPT !.path = <<search.goal>>]
                        /\ search' = [walked EXCEPT !.pc = "done",
                                                    !.block_position = block_position]
                   ELSE /\ UNCHANGED path_finder
                        /\ search' =
                             IF above_cost = Infinity
                             THEN StartSearch([walked EXCEPT
                                                  !.block_position = block_position])
                             ELSE IF cost = Infinity
                             THEN [walked EXCEPT !.block_position = Up(block_position, 1)]
                             ELSE IF below_cost = Infinity
                             THEN [walked EXCEPT !.block_position = block_position]
                             ELSE IF second_below_cost # Infinity
                             THEN [walked EXCEPT !.block_position = Up(block_position, -2)]
                             ELSE [walked EXCEPT !.block_position = Up(block_position, -1)]
    /\ UNCHANGED <<world_map, interfaceVars, craftVars, handVars, entityVars>>

\* one iteration of `while let Some(successor) = queue.pop()`, or the loop's end
Search ==
    /\ search.pc = "search"
    /\ IF search.queue = {}
       THEN /\ search' = [search EXCEPT !.pc = "done"]
            /\ UNCHANGED path_finder
       ELSE \E successor \in Poppable(search.queue) :
              LET path_node == search.node_map[successor.node_index + 1]
                  improves == Cost(successor) < search.best_node_cost
                  best_node_index == IF improves THEN successor.node_index
                                     ELSE search.best_node_index
                  roundabout_limit == IF improves THEN search.roundabout_limit
                                      ELSE search.roundabout_limit + 1
                  queue == search.queue \ {successor}
                  popped == [search EXCEPT
                               !.queue = queue,
                               !.best_node_index = best_node_index,
                               !.best_node_cost = IF improves THEN Cost(successor) ELSE @,
                               !.roundabout_limit = roundabout_limit,
                               !.improvements = IF improves THEN @ + 1 ELSE @]
              IN IF GiveUp(roundabout_limit)
                 THEN /\ search' = [popped EXCEPT !.pc = "done"]
                      /\ path_finder' =
                           [path_finder EXCEPT
                              !.path = set_path(@, best_node_index, search.node_map)]
                 ELSE IF Cost(successor) > path_node.cost
                         /\ path_node.parent_index # NoParent
                 THEN /\ search' = popped
                      /\ UNCHANGED path_finder
                 ELSE \E successors \in {get_potential_successors(
                                              world_map, path_node.position, search.goal)} :
                      \E out \in {Relax(successors, 1, successor, search.node_map, queue,
                                        search.goal)} :
                         IF out.found # NoParent
                         THEN /\ search' = [popped EXCEPT !.pc = "done",
                                                          !.node_map = out.node_map]
                              /\ path_finder' =
                                   [path_finder EXCEPT
                                      !.path = set_path(@, out.found, out.node_map)]
                         ELSE /\ search' = [popped EXCEPT !.node_map = out.node_map,
                                                          !.queue = out.queue]
                              /\ UNCHANGED path_finder
    /\ UNCHANGED <<world_map, interfaceVars, craftVars, handVars, entityVars>>

PathInit ==
    /\ EntityIdle
    /\ world_map \in SmallWorlds \cup {CorridorWorld(detour) : detour \in Detours}
                        \cup {WalledWorld}
    /\ path_finder = NewPathFinder
    /\ search = NoSearch
    /\ phase = "input"
    /\ world = [p \in Positions |-> "air"]
    /\ MiningIdle /\ ClickIdle /\ InterfaceIdle /\ CraftIdle

PathNext == FindPath \/ DirectWalk \/ Search

\* a call that has begun goes on
SpecPath == PathInit /\ [][PathNext]_vars /\ WF_vars(PathNext)

(***************************************************************************)
(* Equipping: messages arrive between the runs of equip_item.              *)
(***************************************************************************)
MaxEquips == 2

EquipMessageArrives ==
    /\ Len(equip_events) < MaxEquips
    /\ \E message \in EquipMessages : equip_events' = Append(equip_events, message)
    /\ UNCHANGED <<equipped_item, disconnected, exceptEquip>>

EquipItem ==
    /\ \E out \in {equip_item(equip_events, equipped_item, disconnected)} :
          /\ equip_events' = out.events
          /\ equipped_item' = out.equipped
          /\ disconnected' = out.gone
    /\ UNCHANGED exceptEquip

EquipInit ==
    /\ equip_events = <<>>
    /\ equipped_item = [p \in Players |-> 0]
    /\ disconnected = {}
    /\ PatternIdle /\ DropIdle /\ FollowIdle /\ LifeIdle /\ GenIdle
    /\ phase = "input"
    /\ world = [p \in Positions |-> "air"]
    /\ MiningIdle /\ ClickIdle /\ InterfaceIdle /\ CraftIdle /\ PathIdle

EquipNext == EquipMessageArrives \/ EquipItem

SpecEquip == EquipInit /\ [][EquipNext]_vars

(***************************************************************************)
(* Pattern::from on the 3x3 grid of a crafting table: the grid is           *)
(* normalized; another grid is normalized to be compared with it; the       *)
(* pattern is placed back into a grid and normalized again.                 *)
(***************************************************************************)
TableSlots == 9

TableSide == GridSize(TableSlots)

MaxFilled == 2

\* grids of a crafting table with few stacks in them
TableGrids ==
    UNION {{[i \in 1..TableSlots |->
                IF i \in cells THEN [item |-> items[i], size |-> 1] ELSE EmptyStack] :
             items \in [cells -> InterfaceItems]} :
           cells \in {c \in SUBSET (1..TableSlots) : Cardinality(c) <= MaxFilled}}

\* a pattern as a grid of the table's size, its first cell at row dr, column dc
Placed(pattern, dr, dc) ==
    [i \in 1..TableSlots |->
        LET r == ((i - 1) \div TableSide) - dr + 1
            c == ((i - 1) % TableSide) - dc + 1
        IN IF r \in DOMAIN pattern /\ c \in DOMAIN pattern[r] /\ pattern[r][c] # "none"
           THEN [item |-> pattern[r][c], size |-> 1]
           ELSE EmptyStack]

Normalize ==
    /\ normalizing.pc = "input"
    /\ normalizing' = [normalizing EXCEPT !.pc = "normalized",
                                          !.pattern_a = PatternFrom(normalizing.a)]
    /\ UNCHANGED exceptPattern

Compare ==
    /\ normalizing.pc = "normalized"
    /\ \E b \in TableGrids :
          normalizing' = [normalizing EXCEPT !.pc = "compared", !.b = b,
                                             !.pattern_b = PatternFrom(b)]
    /\ UNCHANGED exceptPattern

PlaceBack ==
    /\ normalizing.pc = "normalized"
    /\ LET pattern == normalizing.pattern_a
           rows == Len(pattern)
           cols == IF rows = 0 THEN 0 ELSE Len(pattern[1])
       IN \E dr \in 0..(TableSide - rows), dc \in 0..(TableSide - cols) :
             normalizing' = [normalizing EXCEPT !.pc = "placed",
                                                !.placed = Placed(pattern, dr, dc)]
    /\ UNCHANGED exceptPattern

Renormalize ==
    /\ normalizing.pc = "placed"
    /\ normalizing' = [normalizing EXCEPT !.pc = "renormalized",
                                          !.again = PatternFrom(normalizing.placed)]
    /\ UNCHANGED exceptPattern

PatternInit ==
    /\ \E a \in TableGrids : normalizing = [NotNormalizing EXCEPT !.pc = "input", !.a = a]
    /\ EquipIdle /\ DropIdle /\ FollowIdle /\ LifeIdle /\ GenIdle
    /\ phase = "input"
    /\ world = [p \in Positions |-> "air"]
    /\ MiningIdle /\ ClickIdle /\ InterfaceIdle /\ CraftIdle /\ PathIdle

PatternNext == Normalize \/ Compare \/ PlaceBack \/ Renormalize

SpecPattern == PatternInit /\ [][PatternNext]_vars

(***************************************************************************)
(* Dropped items in reach of two players: time passes, item_pickup runs,    *)
(* a pulled item arrives at the player that pulls it.                       *)
(***************************************************************************)
\* when the systems run
Times == {0, 250, 500, 750}

\* the sequences that hold each element of a set once
Orders(S) == {order \in [1..Cardinality(S) -> S] :
                 \A i, j \in DOMAIN order : order[i] = order[j] => i = j}

FullOfStone == [item |-> "stone", size |-> MaxStack]

\* inventories whose first slots vary, with no room in the others
MaxSlots == 3

PickerInventories ==
    {[k \in 1..InventoryCapacity |-> IF k \in DOMAIN first THEN first[k] ELSE FullOfStone] :
        first \in [1..MaxSlots -> {EmptyStack, FullOfStone, [item |-> "planks", size |-> 1]}]}

EmptyInventory == [k \in 1..InventoryCapacity |-> EmptyStack]

\* where a dropped item lies: at a player's feet, at camera height, two metres
\* and two and a half metres up
DropPositions == {0, 12, 20, 25}

Alive == {id \in DOMAIN dropped_items : dropped_items[id].alive}

TimePasses ==
    /\ \E time \in Times : time > now /\ now' = time
    /\ UNCHANGED <<pickers, dropped_items, pickup_log, exceptDrop>>

ItemPickup ==
    /\ \E players \in Orders(DOMAIN pickers), order \in Orders(Alive) :
       \E run \in {item_pickup(players, order, now,
                                [pickers |-> pickers, items |-> dropped_items,
                                 log |-> NoLog])} :
          /\ pickers' = run.pickers
          /\ dropped_items' =
                [id \in DOMAIN dropped_items |->
                    IF id \in run.log.despawns THEN [run.items[id] EXCEPT !.alive = FALSE]
                    ELSE run.items[id]]
          /\ pickup_log' = run.log
    /\ UNCHANGED <<now, exceptDrop>>

\* Physics: an item moves towards the point its velocity was set to
ItemArrives ==
    /\ \E id \in Alive :
          /\ dropped_items[id].toward \in DOMAIN pickers
          /\ dropped_items[id].position # PlayerPosition(pickers[dropped_items[id].toward])
          /\ dropped_items' =
                [dropped_items EXCEPT
                    ![id].position = PlayerPosition(pickers[dropped_items[id].toward])]
    /\ UNCHANGED <<now, pickers, pickup_log, exceptDrop>>

PickupInit ==
    /\ now = 0
    /\ \E camera \in {0, 15}, a_dead, b_dead \in BOOLEAN, inv \in PickerInventories :
          pickers = [p \in Players |->
                        IF p = "a"
                        THEN [position |-> 0, camera |-> camera, dead |-> a_dead,
                              inventory |-> inv]
                        ELSE [position |-> 40, camera |-> 0, dead |-> b_dead,
                              inventory |-> EmptyInventory]]
    /\ \E stack \in {[item |-> "planks", size |-> 1], [item |-> "planks", size |-> MaxStack],
                      [item |-> "stick", size |-> 1]},
          first \in DropPositions, second \in {12, 25} :
          dropped_items =
              [id \in DroppedIds |->
                  IF id = 1
                  THEN [stack |-> stack, drop_time |-> 0, pickup_delay |-> PickupDelay,
                        position |-> first, toward |-> "nobody", alive |-> TRUE]
                  ELSE [stack |-> [item |-> "planks", size |-> 1], drop_time |-> 250,
                        pickup_delay |-> PickupDelay, position |-> second,
                        toward |-> "nobody", alive |-> TRUE]]
    /\ pickup_log = NoLog
    /\ EquipIdle /\ PatternIdle /\ FollowIdle /\ LifeIdle /\ GenIdle
    /\ phase = "input"
    /\ world = [p \in Positions |-> "air"]
    /\ MiningIdle /\ ClickIdle /\ InterfaceIdle /\ CraftIdle /\ PathIdle

PickupNext == TimePasses \/ ItemPickup \/ ItemArrives

SpecPickup == PickupInit /\ [][PickupNext]_vars

(***************************************************************************)
(* A mob follows a path: it moves, and asks next_node where to go.          *)
(***************************************************************************)
MaxPath == 3

\* points of a path: on the mob's level at up to a block's distance, and a
\* block above it
PathPoints == {<<x, 0, z>> : x \in {0, 1, 2, 4}, z \in {0, 2}}
                  \cup {<<0, 4, 0>>, <<4, 4, 2>>}

FollowerPositions == {<<0, 0, 0>>, <<2, 0, 0>>, <<4, 0, 2>>}

FollowedPaths == UNION {[1..n -> PathPoints] : n \in 0..MaxPath}

MobMoves ==
    /\ \E position \in FollowerPositions \ {follower.position} :
          follower' = [follower EXCEPT !.position = position, !.called = FALSE]
    /\ UNCHANGED <<path_finder, exceptFollow>>

NextNode ==
    /\ \E out \in {next_node(path_finder.path, follower.position)} :
          /\ path_finder' = [path_finder EXCEPT !.path = out.path]
          /\ follower' = [follower EXCEPT !.called = TRUE, !.returned = out.result]
    /\ UNCHANGED exceptFollow

FollowInit ==
    /\ \E path \in FollowedPaths : path_finder = [NewPathFinder EXCEPT !.path = path]
    /\ \E position \in FollowerPositions : follower = [NoFollower EXCEPT !.position = position]
    /\ world_map = <<>>
    /\ search = NoSearch
    /\ EquipIdle /\ PatternIdle /\ DropIdle /\ LifeIdle /\ GenIdle
    /\ phase = "input"
    /\ world = [p \in Positions |-> "air"]
    /\ MiningIdle /\ ClickIdle /\ InterfaceIdle /\ CraftIdle

FollowNext == MobMoves \/ NextNode

SpecFollow == FollowInit /\ [][FollowNext]_vars

(***************************************************************************)
(* A player or a mob is damaged and healed, frame by frame.                 *)
(***************************************************************************)
MaxEvents == 2

\* the time of a frame
Deltas == {100, 250}

Amounts == {1, 7, DefaultHearts, U32Max}

EventsOf(S) == UNION {[1..n -> S] : n \in 0..MaxEvents}

\* the heal events of a frame: none or one
HealEvents == {<<>>} \cup {<<healing>> : healing \in Amounts}

\* hearts of a player that is loaded from a save
SavedHearts == {0, 1, DefaultHearts}

MobSounds == {"none", "full", "no_death", "no_damage"}

IsPlayer == health.max > 0

IsMob == mob.health.max > 0

ChangeHealth ==
    /\ IsPlayer
    /\ \E delta \in Deltas, damage_events \in EventsOf(Amounts),
          heal_events \in HealEvents :
          \E out \in {change_health(health, delta, damage_events, heal_events)} :
             /\ health' = out.health
             /\ health_log' = out.log
    /\ UNCHANGED <<mob, mob_log, exceptLife>>

DamageMobs ==
    /\ IsMob
    /\ ~mob.despawned
    /\ \E delta \in Deltas, events \in EventsOf(Amounts) :
          \E out \in {damage_mobs(mob, delta, events)} :
             /\ mob' = out.mob
             /\ mob_log' = out.log
    /\ UNCHANGED <<health, health_log, exceptLife>>

\* Health::heal of a mob
MobHeals ==
    /\ IsMob
    /\ ~mob.despawned
    /\ \E healing \in Amounts :
          \E healed \in {mob_heal(mob.health, healing)} :
             /\ mob' = [mob EXCEPT !.health = healed]
             /\ mob_log' = [NoMobLog EXCEPT !.ops = <<Op("heal", healing, healed)>>]
    /\ UNCHANGED <<health, health_log, exceptLife>>

LifeInit ==
    /\ \/ /\ \E hearts \in SavedHearts :
                health = [NoHealth EXCEPT !.hearts = hearts, !.max = DefaultHearts]
          /\ mob = NoMob
       \/ /\ health = NoHealth
          /\ \E color \in {"none", "white"}, sounds \in MobSounds :
                mob = [NoMob EXCEPT !.health = new(MobHearts), !.color = color,
                                    !.sounds = sounds]
    /\ health_log = NoHealthLog
    /\ mob_log = NoMobLog
    /\ world_map = <<>>
    /\ path_finder = NewPathFinder
    /\ search = NoSearch
    /\ EquipIdle /\ PatternIdle /\ DropIdle /\ FollowIdle /\ GenIdle
    /\ phase = "input"
    /\ world = [p \in Positions |-> "air"]
    /\ MiningIdle /\ ClickIdle /\ InterfaceIdle /\ CraftIdle

LifeNext == ChangeHealth \/ DamageMobs \/ MobHeals

SpecLife == LifeInit /\ [][LifeNext]_vars

(***************************************************************************)
(* The blueprints are loaded: read from their files, validated, built.      *)
(***************************************************************************)
MaxHeight == 1

Heights == 0..MaxHeight

\* a probability below 0, one between 0 and 1, one above 1
Probabilities == {-50, 50, 150}

BlockNames == {"stone", "granite"}

HeightDistributions ==
    {Uniform(min, max, p) : min \in Heights, max \in Heights, p \in Probabilities}
        \cup UNION {{Triangle(min, mid, max, p) : min \in Heights, mid \in Heights}
                       : max \in Heights, p \in Probabilities}

Features ==
    {Feature("decoration", <<block, placed_on>>) :
        block \in BlockNames, placed_on \in BlockNames}
        \cup {Feature("orevein", <<block>>) : block \in BlockNames}

\* what a blueprint of the file "forest" nests: the file "bush", a file that
\* is not there, or a feature written in its place
Nested == {Named("bush"), Named("thicket")} \cup {Inline(feature) : feature \in Features}

Composed ==
    {Collection(<<a>>) : a \in Nested}
        \cup {Collection(<<Inline(Feature("decoration", <<"stone", "stone">>)), a>>) :
                 a \in Nested}
        \cup {Distribution(a, d) : a \in Nested, d \in HeightDistributions}

\* the blueprint of the file "forest"
Forests ==
    Features \cup Composed
        \cup {Collection(<<Inline(c)>>) : c \in Composed}
        \cup {Distribution(Inline(c), Uniform(0, MaxHeight, 50)) : c \in Composed}

BlueprintFiles ==
    {[name \in {"forest", "bush"} |-> IF name = "forest" THEN forest ELSE bush] :
        forest \in Forests, bush \in Features}

\* load_blueprints: every named blueprint is validated
ValidateBlueprints ==
    /\ blueprints.pc = "read"
    /\ blueprints' =
          [blueprints EXCEPT !.pc =
              IF \E name \in DOMAIN blueprints.named :
                    validate(blueprints.named[name], blueprints.named) # None
              THEN "panicked" ELSE "validated"]
    /\ UNCHANGED exceptBlueprints

\* load_blueprints: every named blueprint is built
NewBlueprints ==
    /\ blueprints.pc = "validated"
    /\ blueprints' =
          [blueprints EXCEPT !.pc =
              IF \A name \in DOMAIN blueprints.named :
                    Builds(blueprints.named[name], blueprints.named)
              THEN "loaded" ELSE "panicked"]
    /\ UNCHANGED exceptBlueprints

BlueprintsInit ==
    /\ \E named \in BlueprintFiles : blueprints = [named |-> named, pc |-> "read"]
    /\ IdleButBlueprints
    /\ world_map = <<>>
    /\ path_finder = NewPathFinder
    /\ search = NoSearch
    /\ phase = "input"
    /\ world = [p \in Positions |-> "air"]
    /\ MiningIdle /\ ClickIdle /\ InterfaceIdle /\ CraftIdle

BlueprintsNext == ValidateBlueprints \/ NewBlueprints

SpecBlueprints == BlueprintsInit /\ [][BlueprintsNext]_vars

(***************************************************************************)
(* A chunk is generated.                                                    *)
(***************************************************************************)
\* the chunks from 4 below the sea to 1 above it, and one above MAX_HEIGHT
ChunkPositions ==
    {k * ChunkSize : k \in -4..1} \cup {(MAX_HEIGHT \div ChunkSize + 1) * ChunkSize}

ContinentHeights == {CONTINTENT_MIN, 2, 3, CONTINTENT_MAX}

\* generate_features: an ore vein may replace one block of the bottom layer
Featured(terrain) ==
    {terrain} \cup {[terrain EXCEPT ![y] = "ore"] :
                      y \in {i \in DOMAIN terrain : terrain[i] = "bottom_layer_block"}}

GenerateChunk ==
    /\ earth.pc = "noise"
    /\ \E terrain \in {generate_terrain(earth)} :
          \E features \in Featured(terrain) :
             earth' = [earth EXCEPT !.pc = "generated",
                                    !.terrain = terrain,
                                    !.chunk = generate_chunk(earth, features)]
    /\ UNCHANGED exceptEarth

EarthInit ==
    /\ \E chunk_position \in ChunkPositions, continent_height \in ContinentHeights,
          solid \in [1..CHUNK_HEIGHT -> BOOLEAN] :
          earth = [NoEarth EXCEPT !.pc = "noise", !.chunk_position = chunk_position,
                                  !.continent_height = continent_height,
                                  !.solid = solid]
    /\ IdleButEarth
    /\ world_map = <<>>
    /\ path_finder = NewPathFinder
    /\ search = NoSearch
    /\ phase = "input"
    /\ world = [p \in Positions |-> "air"]
    /\ MiningIdle /\ ClickIdle /\ InterfaceIdle /\ CraftIdle

EarthNext == GenerateChunk

SpecEarth == EarthInit /\ [][EarthNext]_vars

(***************************************************************************)
(* The movement plugin at work: a player in Survival mode in a strip of    *)
(* blocks, updated every 1/60 s.                                           *)
(***************************************************************************)
MaxTicks == 70

\* the updates at which keyboard input arrives
KeyFrames == {1, 35}

Keys == {"KeyW", "Space"}

BlocksY == -2..4

BlocksZ == -2..5

Scenes == {"flat", "wall", "slab", "unloaded", "water", "ceiling", "stairs"}

\* The blocks of a scene: stone below y = 0 and air above it, and
\*   wall: a full block at (0, 0, 1)
\*   slab: a half block at (0, 0, 1) and a full block behind it
\*   stairs: the same under a ceiling two blocks above the floor
\*   unloaded: the chunk from z = 2 on is not loaded
\*   water: a pool two blocks long and two deep
\*   ceiling: blocks two up
SceneBlocks(scene) ==
    [pos \in BlocksY \X BlocksZ |->
        IF scene = "unloaded" /\ pos[2] >= 2 THEN "none"
        ELSE IF scene = "water" /\ pos[1] \in {-2, -1} /\ pos[2] \in {1, 2} THEN "water"
        ELSE IF pos[1] < 0 THEN "stone"
        ELSE IF scene = "wall" /\ pos = <<0, 1>> THEN "stone"
        ELSE IF scene \in {"slab", "stairs"} /\ pos = <<0, 1>> THEN "slab"
        ELSE IF scene \in {"slab", "stairs"} /\ pos[1] = 0 /\ pos[2] >= 2 THEN "stone"
        ELSE IF scene \in {"ceiling", "stairs"} /\ pos[1] = 2 THEN "stone"
        ELSE "air"]

\* where the server puts the player
Spawns == {<<0, 0>>, <<1500, 0>>}

\* MovementPlugin::update in Survival mode: the timers, update_keyboard_input,
\* walking_controller and collision.  last_jump is not counted beyond the
\* first value above JUMP_TIME.
Update ==
    /\ IdleButMover
    /\ mover.scene # "none"
    /\ mover.ticks < MaxTicks
    /\ \E pressed_keys \in IF mover.ticks + 1 \in KeyFrames THEN SUBSET Keys
                          ELSE {mover.pressed_keys} :
          LET timed == [mover.properties EXCEPT
                           !.last_jump = Min(@ + DeltaTime, JUMP_TIME + DeltaTime)]
              walked == walking_controller(timed, pressed_keys)
              collided == collision(walked.properties, mover.translation,
                                    SceneBlocks(mover.scene))
          IN \E out \in {collided} :
                mover' = [mover EXCEPT
                             !.properties = out.properties,
                             !.translation = out.translation,
                             !.pressed_keys = pressed_keys,
                             !.ticks = @ + 1,
                             !.jumps = IF walked.jumped THEN Append(@, mover.ticks + 1)
                                       ELSE @,
                             !.step = [aborted |-> out.aborted,
                                       jumped |-> walked.jumped,
                                       timed |-> timed,
                                       before |-> walked.properties,
                                       from |-> mover.translation]]
    /\ UNCHANGED exceptMover

MovementInit ==
    /\ IdleButMover
    /\ world_map = <<>>
    /\ path_finder = NewPathFinder
    /\ search = NoSearch
    /\ phase = "input"
    /\ world = [p \in Positions |-> "air"]
    /\ MiningIdle /\ ClickIdle /\ InterfaceIdle /\ CraftIdle
    /\ \E scene \in Scenes, spawn \in Spawns :
          mover = [NoMover EXCEPT !.scene = scene, !.spawn = spawn,
                                  !.translation = spawn, !.step.from = spawn]

MovementNext == Update

SpecMovement == MovementInit /\ [][MovementNext]_vars

(***************************************************************************)
(* Block states are decoded one after the other; the last two are kept.    *)
(***************************************************************************)
\* collision: BlockState(block_state).rotation()
Decode ==
    /\ IdleButDecoder
    /\ \E state \in BlockStates :
          \E out \in {rotation(state)} :
             decoder' = [states |-> <<state>> \o SubSeq(decoder.states, 1,
                                                      Min(1, Len(decoder.states))),
                         rotations |-> <<out>> \o SubSeq(decoder.rotations, 1,
                                                         Min(1, Len(decoder.rotations)))]
    /\ UNCHANGED exceptDecoder

DecoderInit ==
    /\ IdleButDecoder
    /\ decoder = NoDecoder
    /\ world_map = <<>>
    /\ path_finder = NewPathFinder
    /\ search = NoSearch
    /\ phase = "input"
    /\ world = [p \in Positions |-> "air"]
    /\ MiningIdle /\ ClickIdle /\ InterfaceIdle /\ CraftIdle

DecoderNext == Decode

SpecDecoder == DecoderInit /\ [][DecoderNext]_vars

(***************************************************************************)
(* A zombie among players that move, change their game mode, come and go   *)
(* and hit it.                                                             *)
(***************************************************************************)
Distances == {10, 11}

GameModes == {"Survival", "Creative"}

HuntedPlayers ==
    [connected : BOOLEAN, game_mode : GameModes, distance : Distances, in_sight : BOOLEAN]

\* between two runs: a player moves, changes mode, connects or disconnects, the
\* zombie comes into or goes out of sight of the clients, hands hit the zombie
PlayersChange ==
    /\ IdleButHunt
    /\ hunt.players # <<>>
    /\ \/ \E p \in Players :
             \E player \in {[hunt.players[p] EXCEPT !.connected = ~@],
                             [hunt.players[p] EXCEPT !.in_sight = ~@]}
                            \cup {[hunt.players[p] EXCEPT !.game_mode = mode] :
                                     mode \in GameModes \ {hunt.players[p].game_mode}}
                            \cup {[hunt.players[p] EXCEPT !.distance = distance] :
                                     distance \in Distances \ {hunt.players[p].distance}} :
                hunt' = [hunt EXCEPT !.players[p] = player, !.processed = FALSE]
       \/ hunt' = [hunt EXCEPT !.visible = ~@, !.processed = FALSE]
       \/ \E p \in Players \ hunt.hand_hits :
             hunt' = [hunt EXCEPT !.hand_hits = @ \cup {p}, !.processed = FALSE]
    /\ UNCHANGED exceptHunt

\* hunt_player for the zombie; the hits of the frame are read and cleared
HuntPlayer ==
    /\ IdleButHunt
    /\ hunt.players # <<>>
    /\ IF ~hunt.visible
       THEN hunt' = [hunt EXCEPT !.processed = FALSE, !.hand_hits = {}]
       ELSE \E target \in hunt_player(hunt.players, hunt.target, hunt.hand_hits) :
               hunt' = [hunt EXCEPT !.target = target, !.before = hunt.target,
                                    !.read = hunt.hand_hits,
                                    !.processed = TRUE, !.hand_hits = {}]
    /\ UNCHANGED exceptHunt

HuntInit ==
    /\ IdleButHunt
    /\ \E players \in [Players -> HuntedPlayers] :
          hunt = [NoHunt EXCEPT !.players = players]
    /\ world_map = <<>>
    /\ path_finder = NewPathFinder
    /\ search = NoSearch
    /\ phase = "input"
    /\ world = [p \in Positions |-> "air"]
    /\ MiningIdle /\ ClickIdle /\ InterfaceIdle /\ CraftIdle

HuntNext == PlayersChange \/ HuntPlayer

SpecHunt == HuntInit /\ [][HuntNext]_vars

(***************************************************************************)
(* A block with torches and other blocks around it is changed and          *)
(* fragile_break reads the events.                                         *)
(***************************************************************************)
MaxTorches == 2

ChangedKinds == {"air", "stone", "dirt"}

\* the rotations a placed torch may hold: one of the sides, or none when it
\* stands upright
TorchStates == {Some(SideRotation(Sides[i])) : i \in DOMAIN Sides}

AroundBlocks == {AirBlock, Block("stone", None)} \cup {Block("torch", state) : state \in TorchStates}

Arounds ==
    {around \in [DOMAIN Sides -> AroundBlocks] :
        Cardinality({i \in DOMAIN Sides : around[i] # AirBlock}) <= MaxTorches}

\* fmc applies a BlockUpdate to the block and sends the ChangedBlockEvent with
\* the blocks around it
ChangeBlock ==
    /\ IdleButFragile
    /\ fragile.around # <<>>
    /\ fragile.events = <<>>
    /\ \E to \in ChangedKinds \ {fragile.block} :
          fragile' = [fragile EXCEPT
                         !.block = to,
                         !.events = Append(@, [from |-> fragile.block, to |-> to,
                                               around |-> fragile.around]),
                         !.ran = FALSE]
    /\ UNCHANGED exceptFragile

\* fragile_break, and the BlockUpdates it wrote applied
FragileBreak ==
    /\ IdleButFragile
    /\ fragile.events # <<>>
    /\ LET event == Head(fragile.events)
       IN \E broken \in {Broken(event)} :
             fragile' = [fragile EXCEPT
                            !.events = Tail(@),
                            !.around = [i \in DOMAIN Sides |->
                                           IF i \in broken THEN AirBlock ELSE @[i]],
                            !.last = event,
                            !.broken = broken,
                            !.drops = Cardinality(broken),
                            !.ran = TRUE]
    /\ UNCHANGED exceptFragile

FragileInit ==
    /\ IdleButFragile
    /\ \E block \in ChangedKinds \ {"air"}, around \in Arounds :
          fragile = [NoFragile EXCEPT !.block = block, !.around = around]
    /\ world_map = <<>>
    /\ path_finder = NewPathFinder
    /\ search = NoSearch
    /\ phase = "input"
    /\ world = [p \in Positions |-> "air"]
    /\ MiningIdle /\ ClickIdle /\ InterfaceIdle /\ CraftIdle

FragileNext == ChangeBlock \/ FragileBreak

SpecFragile == FragileInit /\ [][FragileNext]_vars

(***************************************************************************)
(* A block is hit until it breaks.                                         *)
(***************************************************************************)
\* what one hit adds to the progress: (now - prev_hit) / hardness * efficiency
Gains == {41, 113, 251}

\* break_blocks, the first hit: the BreakingBlock and its hidden model with
\* blocks/breaking_1.png
StartBreaking ==
    /\ IdleButBreaking
    /\ breaking.pc \in {"start", "broken"}
    /\ breaking' = [pc |-> "breaking", progress |-> 0, prev_progress |-> 0,
                    visible |-> FALSE, texture |-> 1]
    /\ UNCHANGED exceptBreaking

\* break_blocks, a later hit within the hold interval
HitBlock ==
    /\ IdleButBreaking
    /\ breaking.pc = "breaking"
    /\ \E gain \in Gains :
          LET progress == breaking.progress + gain
              texture == next_texture(breaking.progress, progress)
          IN \E out \in {[pc |-> IF progress >= ProgressOne THEN "broken" ELSE "breaking",
                          progress |-> progress,
                          prev_progress |-> breaking.progress,
                          visible |-> breaking.visible
                                         \/ Reveals(breaking.progress, progress),
                          texture |-> IF texture = None THEN breaking.texture
                                      ELSE texture[1]]} :
                breaking' = out
    /\ UNCHANGED exceptBreaking

BreakingInit ==
    /\ IdleButBreaking
    /\ breaking = [NoBreaking EXCEPT !.pc = "start"]
    /\ world_map = <<>>
    /\ path_finder = NewPathFinder
    /\ search = NoSearch
    /\ phase = "input"
    /\ world = [p \in Positions |-> "air"]
    /\ MiningIdle /\ ClickIdle /\ InterfaceIdle /\ CraftIdle

BreakingNext == StartBreaking \/ HitBlock

SpecBreaking == BreakingInit /\ [][BreakingNext]_vars

(***************************************************************************)
(* Mobs are spawned in simulated chunks and move; chunks start and stop    *)
(* being simulated; update_mob_map runs once a frame.                      *)
(***************************************************************************)
MaxMobs == 2

MapChunks == {0, 1, 2}

\* the ids of a set in rising order
RECURSIVE Ordered(_)
Ordered(S) == IF S = {} THEN <<>> ELSE LET x == SetMin(S) IN <<x>> \o Ordered(S \ {x})

\* spawn_zombies: a new entity in a simulated chunk
SpawnMob ==
    /\ IdleButMobs
    /\ ~mobs.panicked
    /\ mobs.doomed = {}
    /\ Len(mobs.chunks) < MaxMobs
    /\ \E chunk \in DOMAIN mobs.map.position2entities :
          mobs' = [mobs EXCEPT !.chunks = Append(@, chunk),
                               !.changed = @ \cup {Len(mobs.chunks) + 1},
                               !.ran = FALSE]
    /\ UNCHANGED exceptMobs

\* a living mob walks into another chunk
MobWalks ==
    /\ IdleButMobs
    /\ ~mobs.panicked
    /\ mobs.doomed = {}
    /\ \E entity \in DOMAIN mobs.chunks \ mobs.gone, chunk \in MapChunks :
          /\ chunk # mobs.chunks[entity]
          /\ mobs' = [mobs EXCEPT !.chunks[entity] = chunk,
                                  !.changed = @ \cup {entity},
                                  !.ran = FALSE]
    /\ UNCHANGED exceptMobs

\* the ChunkSimulationEvents fmc may send: Start for a chunk that is not
\* simulated, Stop for one that is
SimulationEvents ==
    {None} \cup {Some([start |-> c \notin DOMAIN mobs.map.position2entities,
                       chunk_position |-> c]) : c \in MapChunks}

\* update_mob_map for the mobs whose transform changed and at most one
\* ChunkSimulationEvent
UpdateMobMap ==
    /\ IdleButMobs
    /\ ~mobs.panicked
    /\ mobs.doomed = {}
    /\ \E event \in SimulationEvents :
          /\ mobs.changed # {} \/ event # None
          /\ LET start == [position2entities |-> mobs.map.position2entities,
                           entity2position |-> mobs.map.entity2position,
                           despawned |-> {}, panic |-> FALSE]
                 changed == Ordered(mobs.changed \ mobs.gone)
             IN \E out \in {Simulate(MoveMobs(start, changed, mobs.chunks, 1), event)} :
                   mobs' = [mobs EXCEPT
                               !.map = [position2entities |-> out.position2entities,
                                        entity2position |-> out.entity2position],
                               !.changed = {},
                               !.doomed = @ \cup out.despawned,
                               !.panicked = out.panic,
                               !.ran = TRUE]
    /\ UNCHANGED exceptMobs

\* despawn_zombies: the zombies a MobDespawnEvent names are despawned.  The
\* system is ordered after update_mob_map, so it runs in the same frame, before
\* anything else moves
DespawnZombies ==
    /\ IdleButMobs
    /\ ~mobs.panicked
    /\ mobs.doomed # {}
    /\ mobs' = [mobs EXCEPT !.gone = @ \cup mobs.doomed, !.doomed = {}]
    /\ UNCHANGED exceptMobs

MobsInit ==
    /\ IdleButMobs
    /\ mobs = NoMobs
    /\ world_map = <<>>
    /\ path_finder = NewPathFinder
    /\ search = NoSearch
    /\ phase = "input"
    /\ world = [p \in Positions |-> "air"]
    /\ MiningIdle /\ ClickIdle /\ InterfaceIdle /\ CraftIdle

MobsNext == SpawnMob \/ MobWalks \/ UpdateMobMap \/ DespawnZombies

SpecMobs == MobsInit /\ [][MobsNext]_vars

(***************************************************************************)
(* A zombie through day and night among players that come near, leave and  *)
(* hit back.                                                               *)
(***************************************************************************)
AttackDistances == {1, 2, 11}

AttackedPlayers ==
    [connected : BOOLEAN, game_mode : {"Survival"}, distance : AttackDistances,
     in_sight : {TRUE}]

\* the clock passes dusk or dawn
ClockTurns ==
    /\ IdleButAttacking
    /\ attacking.players # <<>>
    /\ attacking' = [attacking EXCEPT !.night_time = ~@, !.ran = FALSE]
    /\ UNCHANGED exceptAttacking

HideDuringDaytime ==
    /\ IdleButAttacking
    /\ attacking.players # <<>>
    /\ ~attacking.zombie.despawned
    /\ \E out \in {hide_during_daytime(attacking.zombie, attacking.hidden,
                                        attacking.night_time)} :
          attacking' = [attacking EXCEPT !.zombie = out.zombie, !.hidden = out.hidden,
                                         !.ran = FALSE]
    /\ UNCHANGED exceptAttacking

\* a player moves, connects or disconnects
AttackedPlayersChange ==
    /\ IdleButAttacking
    /\ attacking.players # <<>>
    /\ \E p \in Players :
       \E player \in {[attacking.players[p] EXCEPT !.connected = ~@]}
                      \cup {[attacking.players[p] EXCEPT !.distance = distance] :
                               distance \in AttackDistances \ {attacking.players[p].distance}} :
          attacking' = [attacking EXCEPT !.players[p] = player, !.ran = FALSE]
    /\ UNCHANGED exceptAttacking

\* hunt_player for the zombie
ZombieHunts ==
    /\ IdleButAttacking
    /\ attacking.players # <<>>
    /\ ~attacking.zombie.despawned
    /\ attacking.zombie.visible
    /\ \E target \in hunt_player(attacking.players, attacking.zombie.target, {}) :
          attacking' = [attacking EXCEPT !.zombie.target = target, !.ran = FALSE]
    /\ UNCHANGED exceptAttacking

\* damage_mobs: the zombie's health runs out; it is kept for its death pose
ZombieDies ==
    /\ IdleButAttacking
    /\ attacking.players # <<>>
    /\ ~attacking.zombie.dead
    /\ attacking' = [attacking EXCEPT !.zombie.dead = TRUE, !.ran = FALSE]
    /\ UNCHANGED exceptAttacking

\* the invincibility timer of the dead mob ends: the entity is despawned
ZombieDespawns ==
    /\ IdleButAttacking
    /\ attacking.zombie.dead
    /\ ~attacking.zombie.despawned
    /\ attacking' = [attacking EXCEPT !.zombie.despawned = TRUE, !.ran = FALSE]
    /\ UNCHANGED exceptAttacking

Attack ==
    /\ IdleButAttacking
    /\ attacking.players # <<>>
    /\ attacking' = [attacking EXCEPT
                        !.events = attack(attacking.zombie, attacking.players),
                        !.ran = TRUE]
    /\ UNCHANGED exceptAttacking

\* spawn_zombies: a zombie is visible if it is spawned at night
AttackInit ==
    /\ IdleButAttacking
    /\ \E players \in [Players -> AttackedPlayers], night_time \in BOOLEAN :
          attacking = [NoAttack EXCEPT !.players = players, !.night_time = night_time,
                                       !.zombie.visible = night_time]
    /\     /\ world_map = <<>>
    /\ path_finder = NewPathFinder
    /\ search = NoSearch
    /\ phase = "input"
    /\ world = [p \in Positions |-> "air"]
    /\ MiningIdle /\ ClickIdle /\ InterfaceIdle /\ CraftIdle

AttackNext ==
    \/ ClockTurns
    \/ HideDuringDaytime
    \/ AttackedPlayersChange
    \/ ZombieHunts
    \/ ZombieDies
    \/ ZombieDespawns
    \/ Attack

SpecAttack == AttackInit /\ [][AttackNext]_vars

(***************************************************************************)
(* Players join, with a save or without, move, are hurt and send interface *)
(* interactions to the respawn button of the death interface.              *)
(***************************************************************************)
MaxInteractions == 1

\* the RespawnEvents of a frame
MaxRespawnEvents == 2

\* add_players: PlayerBundle::from(save), or a RespawnEvent and a new bundle
AddPlayers ==
    /\ IdleButRespawning
    /\ Len(respawning.respawn_events) < MaxRespawnEvents
    /\ \E p \in DOMAIN respawning.players :
          /\ ~respawning.players[p].joined
          /\ \/ \E hearts \in SavedHearts :
                   respawning' =
                      [respawning EXCEPT
                          !.players[p] = [NoPlayer EXCEPT
                               !.joined = TRUE, !.translation = "away",
                               !.health = [NoHealth EXCEPT !.hearts = hearts,
                                                           !.max = DefaultHearts]]]
             \/ respawning' =
                   [respawning EXCEPT
                       !.players[p] = [NoPlayer EXCEPT
                            !.joined = TRUE, !.translation = "origin",
                            !.health = [NoHealth EXCEPT !.hearts = DefaultHearts,
                                                        !.max = DefaultHearts]],
                       !.respawn_events = Append(@,
                            [player_entity |-> p, writer |-> "add_players",
                             hearts |-> DefaultHearts])]
    /\ UNCHANGED exceptRespawning

\* the player walks away from where it is
PlayerWalks ==
    /\ IdleButRespawning
    /\ \E p \in DOMAIN respawning.players :
          /\ respawning.players[p].joined
          /\ respawning.players[p].translation # "away"
          /\ ~is_dead(respawning.players[p].health)
          /\ respawning' = [respawning EXCEPT !.players[p].translation = "away"]
    /\ UNCHANGED exceptRespawning

\* damage_players: the player loses hearts
PlayerHurt ==
    /\ IdleButRespawning
    /\ \E p \in DOMAIN respawning.players, amount \in {DefaultHearts - 1, DefaultHearts} :
          /\ respawning.players[p].joined
          /\ ~is_dead(respawning.players[p].health)
          /\ respawning' = [respawning EXCEPT
                               !.players[p].health = take_damage(@, amount)]
    /\ UNCHANGED exceptRespawning

\* the client sends an InterfaceInteraction for the death interface's node
InteractionArrives ==
    /\ IdleButRespawning
    /\ \E p \in DOMAIN respawning.players, kind \in {"Button", "TakeItem"} :
          /\ respawning.players[p].joined
          /\ Len(respawning.players[p].interface_events) < MaxInteractions
          /\ respawning' = [respawning EXCEPT
                               !.players[p].interface_events = Append(@, kind)]
    /\ UNCHANGED exceptRespawning

DeathInterface ==
    /\ IdleButRespawning
    /\ Len(respawning.respawn_events) < MaxRespawnEvents
    /\ \E p \in DOMAIN respawning.players :
          /\ respawning.players[p].interface_events # <<>>
          /\ respawning' =
                [respawning EXCEPT
                    !.players[p].interface_events = <<>>,
                    !.respawn_events =
                        @ \o death_interface(respawning.players[p].interface_events, p,
                                             respawning.players[p].health.hearts)]
    /\ UNCHANGED exceptRespawning

RespawnPlayers ==
    /\ IdleButRespawning
    /\ respawning.respawn_events # <<>>
    /\ respawning' =
          [respawning EXCEPT
              !.players = respawn_players(respawning.respawn_events, respawning.players),
              !.respawn_events = <<>>,
              !.respawned = respawning.respawn_events]
    /\ UNCHANGED exceptRespawning

RespawnInit ==
    /\ IdleButRespawning
    /\ respawning = [NoRespawning EXCEPT !.players = [p \in Players |-> NoPlayer]]
    /\     /\ world_map = <<>>
    /\ path_finder = NewPathFinder
    /\ search = NoSearch
    /\ phase = "input"
    /\ world = [p \in Positions |-> "air"]
    /\ MiningIdle /\ ClickIdle /\ InterfaceIdle /\ CraftIdle

RespawnNext ==
    \/ AddPlayers
    \/ PlayerWalks
    \/ PlayerHurt
    \/ InteractionArrives
    \/ DeathInterface
    \/ RespawnPlayers

SpecRespawn == RespawnInit /\ [][RespawnNext]_vars

(***************************************************************************)
(* A wheat is planted at some stage and grows; the swaps it asks for are   *)
(* applied, the block's entity spawned anew.                               *)
(***************************************************************************)
GrowDeltas == {100, 300, 500, 700}

Grow ==
    /\ IdleButWheat
    /\ wheat.block \in 0..LastStage
    /\ wheat.update = None
    /\ \E delta \in GrowDeltas :
       \E out \in {grow(wheat.component, delta)} :
          wheat' = [wheat EXCEPT !.component = out.component, !.update = out.swap,
                                 !.before = wheat.component.stage,
                                 !.fired = out.fired, !.swap = out.swap]
    /\ UNCHANGED exceptWheat

\* fmc applies the BlockUpdate::Swap: a block that is registered replaces the
\* wheat and its spawn function inserts the component
SwapBlock ==
    /\ IdleButWheat
    /\ wheat.update # None
    /\ wheat' = IF wheat.update[1] \in 0..LastStage
                THEN [wheat EXCEPT !.block = wheat.update[1],
                                   !.component = spawn_wheat(wheat.update[1]),
                                   !.update = None]
                ELSE [wheat EXCEPT !.block = -1, !.update = None]
    /\ UNCHANGED exceptWheat

\* a wheat of some stage is placed or generated
WheatInit ==
    /\ IdleButWheat
    /\ \E block \in 0..LastStage :
          wheat = [NoWheat EXCEPT !.block = block, !.component = spawn_wheat(block)]
    /\     /\ world_map = <<>>
    /\ path_finder = NewPathFinder
    /\ search = NoSearch
    /\ phase = "input"
    /\ world = [p \in Positions |-> "air"]
    /\ MiningIdle /\ ClickIdle /\ InterfaceIdle /\ CraftIdle

WheatNext == Grow \/ SwapBlock

SpecWheat == WheatInit /\ [][WheatNext]_vars

(***************************************************************************)
(* Players hit chests, furnaces and crafting tables, and the blocks are    *)
(* despawned, in any order.                                                *)
(***************************************************************************)
BlockEntities == {1, 2}

\* handle_block_hits of the three blocks
SetActive ==
    /\ IdleButRegistries
    /\ \E kind \in RegistryKinds, player_entity \in Players, block_entity \in BlockEntities :
          /\ ~registries[kind].panicked
          /\ registries' = [registries EXCEPT
                               ![kind] = set_active_block(@, player_entity, block_entity)]
    /\ UNCHANGED exceptRegistries

\* handle_despawn of the three blocks
RemoveBlock ==
    /\ IdleButRegistries
    /\ \E kind \in RegistryKinds, block_entity \in BlockEntities :
          /\ ~registries[kind].panicked
          /\ registries' = [registries EXCEPT ![kind] = remove_block(@, block_entity)]
    /\ UNCHANGED exceptRegistries

RegistriesInit ==
    /\ IdleButRegistries
    /\ registries = NoRegistries
    /\     /\ world_map = <<>>
    /\ path_finder = NewPathFinder
    /\ search = NoSearch
    /\ phase = "input"
    /\ world = [p \in Positions |-> "air"]
    /\ MiningIdle /\ ClickIdle /\ InterfaceIdle /\ CraftIdle

RegistriesNext == SetActive \/ RemoveBlock

SpecRegistries == RegistriesInit /\ [][RegistriesNext]_vars

(***************************************************************************)
(* A player fills and empties a furnace while time passes.                 *)
(***************************************************************************)
MaxPicks == 3

DeltaSecs == {1, 2}

FurnaceStacks ==
    {[item |-> "ore", size |-> MaxStack], [item |-> "coal", size |-> MaxStack],
     [item |-> "planks", size |-> 1]}

\* the player takes a stack out of the inventory or puts the held one back
PlayerPicks ==
    /\ IdleButSmelting
    /\ smelting.picks < MaxPicks
    /\ \E stack \in FurnaceStacks \cup {EmptyStack} :
          /\ stack # smelting.held_item
          /\ smelting' = [smelting EXCEPT !.held_item = stack, !.picks = @ + 1,
                                          !.takes = <<>>, !.ran = "none"]
    /\ UNCHANGED exceptSmelting

FurnaceTick ==
    /\ IdleButSmelting
    /\ \E delta_secs \in DeltaSecs :
       \E out \in {furnace(smelting.furnace, delta_secs)} :
          /\ out.furnace # smelting.furnace
          /\ smelting' = [smelting EXCEPT !.furnace = out.furnace, !.takes = out.takes,
                                          !.ran = "furnace"]
    /\ UNCHANGED exceptSmelting

HandleFurnaceEvents ==
    /\ IdleButSmelting
    /\ \E kind \in {"TakeItem", "PlaceItem", "Button"},
          path \in {"crucible", "fuel", "output"}, quantity \in 1..MaxStack :
       \E out \in {handle_interface_events(smelting.furnace, smelting.held_item,
                                           kind, path, quantity)} :
          smelting' = [smelting EXCEPT !.furnace = out.furnace,
                                       !.held_item = out.held_item,
                                       !.takes = out.takes,
                                       !.ran = "handle_interface_events"]
    /\ UNCHANGED exceptSmelting

SmeltingInit ==
    /\ IdleButSmelting
    /\ smelting = NoSmelting
    /\     /\ world_map = <<>>
    /\ path_finder = NewPathFinder
    /\ search = NoSearch
    /\ phase = "input"
    /\ world = [p \in Positions |-> "air"]
    /\ MiningIdle /\ ClickIdle /\ InterfaceIdle /\ CraftIdle

SmeltingNext == PlayerPicks \/ FurnaceTick \/ HandleFurnaceEvents

SpecSmelting == SmeltingInit /\ [][SmeltingNext]_vars

(***************************************************************************)
(* Claims about mining.  They are stated on the break_blocks step: in its  *)
(* pre-state mining_events, elapsed and being_broken are what the system   *)
(* reads.                                                                  *)
(***************************************************************************)
Hit(p) == mining_events[p] # NoEvent /\ Hardness(mining_events[p].block_id) # NoHardness

Age(p) == being_broken[p].since + elapsed

HitEfficiency(p) ==
    ToolEfficiency(HeldTool(mining_events[p].player), mining_events[p].block_id)

\* progress the hit brings the entry of p to, were it added
ProgressAfterHit(p) ==
    being_broken[p].progress
    + (Age(p) * HitEfficiency(p) * ProgressOne) \div Hardness(mining_events[p].block_id)

\* the block at p is broken through mining in this run of break_blocks
MinedOut(p) ==
    /\ Hit(p)
    /\ \/ Hardness(mining_events[p].block_id) = 0
       \/ /\ being_broken[p] # NoEntry
          /\ Age(p) <= HoldInterval
          /\ ProgressAfterHit(p) >= ProgressOne

Emitted(counter, p) == counter'[p] - counter[p]

\* C1 as claimed: every block broken through mining emits exactly one world
\* update and exactly one dropped item, and no position ever does so twice.
C1_AlwaysOneDrop ==
    /\ [][phase = "break" =>
            \A p \in Positions :
                /\ Emitted(replaced, p) = (IF MinedOut(p) THEN 1 ELSE 0)
                /\ Emitted(spawned, p) = (IF MinedOut(p) THEN 1 ELSE 0)]_vars
    /\ [](\A p \in Positions : replaced[p] <= 1 /\ spawned[p] <= 1)

\* C1 amended: every block broken through mining emits exactly one world
\* update replacing it with air, and one dropped item exactly when the block's
\* config has a drop for the held tool (none otherwise); never two of either.
C1_OneUpdatePerBreak ==
    /\ [][phase = "break" =>
            \A p \in Positions :
                /\ Emitted(replaced, p) = (IF MinedOut(p) THEN 1 ELSE 0)
                /\ ([position |-> p, block_id |-> "air"] \in block_updates') = MinedOut(p)
                /\ Emitted(spawned, p) =
                      (IF MinedOut(p) /\ HasDrop(mining_events[p].block_id,
                                                 HeldTool(mining_events[p].player))
                       THEN 1 ELSE 0)]_vars
    /\ [](\A p \in Positions : replaced[p] <= 1 /\ spawned[p] <= replaced[p])

\* a stone block broken by accumulated progress, its update pending, its drop spawned
C1_Witness ==
    \E p \in Positions :
        /\ phase = "apply" /\ world[p] = "stone"
        /\ [position |-> p, block_id |-> "air"] \in block_updates
        /\ replaced[p] = 1 /\ spawned[p] = 1

\* C8 as claimed: a hit on a block with an entry less than 50 ms after the
\* previous hit adds no progress, a hit 50 ms or more after it adds progress.
C8_FastHitsSkipped ==
    [][phase = "break" =>
        \A p \in Positions :
            (Hit(p) /\ being_broken[p] # NoEntry) =>
                IF Age(p) < HoldInterval
                THEN being_broken'[p] = [being_broken[p] EXCEPT !.since = 0]
                ELSE \/ MinedOut(p)
                     \/ being_broken'[p].progress > being_broken[p].progress]_vars

\* C8 amended: a hit on a block with an entry more than 50 ms after the previous
\* recorded hit is skipped (it only restarts the interval), and a hit 50 ms or
\* less after it adds (now - prev_hit) * efficiency / hardness of progress.
C8_SlowHitsSkipped ==
    [][phase = "break" =>
        \A p \in Positions :
            (Hit(p) /\ being_broken[p] # NoEntry) =>
                IF Age(p) > HoldInterval
                THEN being_broken'[p] = [being_broken[p] EXCEPT !.since = 0]
                ELSE \/ MinedOut(p) /\ being_broken'[p] = NoEntry
                     \/ /\ ~MinedOut(p)
                        /\ being_broken'[p] =
                              [progress |-> ProgressAfterHit(p), since |-> 0]
                        /\ ProgressAfterHit(p) > being_broken[p].progress]_vars

\* an entry that took progress from a hit less than 50 ms after the previous one,
\* next to a frame in which a hit on an entry comes too late
C8_Witness ==
    /\ phase = "break"
    /\ \E p \in Positions :
          /\ Hit(p) /\ being_broken[p] # NoEntry
          /\ being_broken[p].progress > 0 /\ being_broken[p].progress < 500
          /\ Age(p) > HoldInterval

\* C9: an entry is removed once more than 0.5 s have passed since its last
\* recorded hit, and never earlier unless its block has been broken.
C9_PurgeAfterHalfSecond ==
    /\ [][phase = "break" =>
            \A p \in Positions :
                being_broken[p] # NoEntry =>
                    /\ (~Hit(p) /\ Age(p) > RemoveAfter) => being_broken'[p] = NoEntry
                    /\ being_broken'[p] = NoEntry =>
                          \/ ~Hit(p) /\ Age(p) > RemoveAfter
                          \/ MinedOut(p)]_vars
    /\ [](\A p \in Positions :
            being_broken[p] # NoEntry =>
                being_broken[p].since <= RemoveAfter /\ being_broken[p].progress < ProgressOne)

\* an entry last hit exactly 0.5 s ago that is still there
C9_Witness ==
    /\ phase = "apply"
    /\ \E p \in Positions :
          being_broken[p] # NoEntry /\ being_broken[p].since = RemoveAfter

CadenceEfficiency == ToolEfficiency(HeldTool(cadence.player), "ore")

\* progress-adding hits a block of hardness 1.0 needs at the cadence
HitsToBreak ==
    (Hardness("ore") + cadence.interval * CadenceEfficiency - 1)
        \div (cadence.interval * CadenceEfficiency)

\* C10 as claimed: at hardness 1.0 and efficiency 1.0, hitting once every 0.1 s
\* breaks the block after about 10 hits (here: it is broken by the 20th hit).
C10_TenHitsEveryTenth ==
    (/\ phase = "input" /\ cadence.interval = 100 /\ CadenceEfficiency = 1
     /\ cadence.hits >= 20) => replaced[1] = 1

\* C10 amended: at hardness 1.0, hits that follow each other by 50 ms or less
\* each add (now - prev_hit) * efficiency / hardness to progress and the block
\* breaks when progress reaches 1.0 - at efficiency 1.0 and one hit every 0.05 s
\* after about 20 hits following the first -; hits further apart than 50 ms,
\* such as one every 0.1 s, add nothing and never break it.
C10_SteadyMining ==
    phase = "input" =>
        /\ replaced[1] = (IF cadence.interval <= HoldInterval
                             /\ cadence.hits >= 1 + HitsToBreak THEN 1 ELSE 0)
        /\ (being_broken[1] # NoEntry) = (cadence.hits >= 1 /\ replaced[1] = 0)
        /\ being_broken[1] # NoEntry =>
              being_broken[1].progress =
                  (IF cadence.interval <= HoldInterval
                   THEN ((cadence.hits - 1) * cadence.interval * CadenceEfficiency
                            * ProgressOne) \div Hardness("ore")
                   ELSE 0)

\* bare handed, one hit every 0.05 s: the 20th hit after the first breaks the block
C10_Witness ==
    /\ phase = "apply" /\ cadence.interval = 50 /\ CadenceEfficiency = 1
    /\ cadence.hits = 21 /\ replaced[1] = 1 /\ spawned[1] = 1
    /\ [position |-> 1, block_id |-> "air"] \in block_updates

(***************************************************************************)
(* Claims about right clicks.  They are stated on the handle_right_clicks  *)
(* step: in its pre-state right_click, inventory, world and occupied are   *)
(* what the system reads.                                                  *)
(***************************************************************************)
Clicker == right_click.player

ClickStack == inventory[Clicker]

\* some targeted entity has HandInteractions
Interactable == FirstInteractable(right_click.targets) # "none"

\* the breakable block the click is aimed at
ClickTarget == FirstBlock(right_click.targets, world)

\* the placement block_placement allows for the click
ClickPlacement ==
    IF ClickTarget = NoTarget THEN NoPlacement
    ELSE block_placement(ClickStack, world[ClickTarget.position], ClickTarget.face,
                         ClickTarget.position, world)

Used == item_uses' # <<>>

NothingInteracted == \A e \in Entities : interactions'[e] = <<>>
NothingPlaced == block_updates' = {} /\ inventory' = inventory
NothingUsed == item_uses' = <<>>

InteractedWithFirst ==
    interactions' = [e \in Entities |->
                        IF e = FirstInteractable(right_click.targets)
                        THEN <<Clicker>> ELSE <<>>]

PlacedAsAllowed ==
    /\ block_updates' = {[position |-> ClickPlacement.position,
                          block_id |-> ClickPlacement.block_id]}
    /\ inventory' = [inventory EXCEPT ![Clicker] = TakeOne(ClickStack)]

\* C5 as claimed: each right click performs exactly one action, in priority order:
\* interact with the first entity having HandInteractions, else place a block if
\* that is possible, else the held item's use handler receives the player.
C5_ExactlyOneAction ==
    [][phase = "rightclick" =>
        IF Interactable
        THEN InteractedWithFirst /\ NothingPlaced /\ NothingUsed
        ELSE IF ClickPlacement # NoPlacement
        THEN PlacedAsAllowed /\ NothingInteracted /\ NothingUsed
        ELSE Used /\ NothingInteracted /\ NothingPlaced]_vars

\* C5 amended: each right click performs at most one action, in priority order:
\* interact with the first entity having HandInteractions, else place a block if
\* that is possible, else - when a stack is held and its item has a registered
\* use handler - that handler receives the player id; otherwise nothing happens.
\* No click both places a block and uses the item.
C5_AtMostOneAction ==
    [][phase = "rightclick" =>
        IF Interactable
        THEN InteractedWithFirst /\ NothingPlaced /\ NothingUsed
        ELSE IF ClickPlacement # NoPlacement
        THEN PlacedAsAllowed /\ NothingInteracted /\ NothingUsed
        ELSE IF ClickStack.size > 0 /\ HasUseHandler(ClickStack.item)
        THEN item_uses' = <<<<ClickStack.item, Clicker>>>>
             /\ NothingInteracted /\ NothingPlaced
        ELSE NothingInteracted /\ NothingPlaced /\ NothingUsed]_vars

\* a torch (bound to a block, with a use handler) was used, not placed: the only
\* breakable block of the world cannot take it
C5_Witness ==
    /\ phase = "apply"
    /\ item_uses = <<<<"torch", "a">>>>
    /\ block_updates = {}
    /\ inventory["a"] = [item |-> "torch", size |-> 2]
    /\ world = [p \in Positions |-> IF p = 1 THEN "stone" ELSE "air"]

\* C6: a placement is rejected - nothing taken from the held stack, no block
\* update - whenever a model's collider overlaps the cell that would be replaced.
C6_RejectedWhenOccupied ==
    [][(/\ phase = "rightclick"
        /\ ~Interactable
        /\ ClickPlacement # NoPlacement
        /\ ClickPlacement.position \in occupied) => NothingPlaced]_vars

\* C7 as claimed: with an item bound to a block in hand, a right click on a
\* breakable block puts the new block on the targeted block if that is
\* replaceable, else on the face-adjacent block if that is, else nowhere.
C7_LandsOnReplaceable ==
    [][(/\ phase = "rightclick"
        /\ ClickStack.size > 0 /\ ItemBlock(ClickStack.item) # "none"
        /\ ClickTarget # NoTarget) =>
          LET position == ClickTarget.position
              adjacent == Shift(ClickTarget.face, position)
              update(at) == {[position |-> at, block_id |-> ItemBlock(ClickStack.item)]}
          IN IF Replaceable(world[position]) THEN block_updates' = update(position)
             ELSE IF adjacent \in DOMAIN world /\ Replaceable(world[adjacent])
             THEN block_updates' = update(adjacent)
             ELSE block_updates' = {}]_vars

\* C7 amended: with an item bound to a block in hand, a right click on a
\* breakable block that no targeted entity with HandInteractions takes places
\* nothing unless the targeted block is solid and the new block may be placed on
\* the targeted face; then the new block lands on the targeted block if that is
\* replaceable, else on the loaded face-adjacent block if that is replaceable,
\* and else nothing is placed.
C7_LandsOnReplaceableOfSolid ==
    [][(/\ phase = "rightclick"
        /\ ClickStack.size > 0 /\ ItemBlock(ClickStack.item) # "none"
        /\ ClickTarget # NoTarget
        /\ ~Interactable) =>
          LET position == ClickTarget.position
              adjacent == Shift(ClickTarget.face, position)
              update(at) == {[position |-> at, block_id |-> ItemBlock(ClickStack.item)]}
          IN IF ~IsSolid(world[position])
                \/ ~IsPlaceable(ItemBlock(ClickStack.item), ClickTarget.face)
             THEN block_updates' = {}
             ELSE IF Replaceable(world[position]) THEN block_updates' = update(position)
             ELSE IF adjacent \in DOMAIN world /\ Replaceable(world[adjacent])
             THEN block_updates' = update(adjacent)
             ELSE block_updates' = {}]_vars

\* a stone block placed onto replaceable grass, the only block of the world that
\* can be aimed at
C7_Witness ==
    /\ phase = "apply"
    /\ world = [p \in Positions |-> IF p = 1 THEN "grass" ELSE "air"]
    /\ block_updates = {[position |-> 1, block_id |-> "stone"]}

(***************************************************************************)
(* Claims about the inventory interface and crafting                       *)
(***************************************************************************)
\* the sizes of the stacks at the places `at`, added up
RECURSIVE CountIn(_, _)
CountIn(stacks, at) ==
    IF at = {} THEN 0
    ELSE LET i == CHOOSE k \in at : TRUE
         IN stacks[i].size + CountIn(stacks, at \ {i})

Count(stacks, item) == CountIn(stacks, {i \in DOMAIN stacks : stacks[i].item = item})

\* how many of an item the player has: inventory, crafting grid and cursor
Total(item) ==
    Count(slots, item) + Count(crafting_input, item) + Count(<<held_item>>, item)

Sound(stack) ==
    \/ stack = EmptyStack
    \/ stack.item \in InterfaceItems /\ stack.size \in 1..Capacity(stack.item)

WithinCapacity ==
    /\ \A i \in DOMAIN slots : Sound(slots[i])
    /\ \A i \in DOMAIN crafting_input : Sound(crafting_input[i])
    /\ Sound(held_item)

\* C3: any sequence of TakeItem/PlaceItem events on the inventory, hotbar and
\* crafting-input nodes preserves the total count of each item across the
\* player's slots and the held stack, and never leaves a stack above its
\* capacity (an emptied stack is the canonical empty stack).
C3_TransfersConserveItems ==
    [][/\ \A item \in InterfaceItems : Total(item)' = Total(item)
       /\ WithinCapacity => WithinCapacity']_vars

\* planks have gone from the hotbar to the crafting grid and the last inventory slot
C3_Witness ==
    /\ crafting_input[1].item = "planks"
    /\ slots[InventoryCapacity].item = "planks"
    /\ slots[1] = EmptyStack
    /\ held_item.item = "stick"

Craftable == get_craftable_amount(recipe, crafting_input)

\* the crafting grid's slots lose `each` items per unit the recipe requires
InputReducedBy(each) ==
    /\ \A i \in Zipped(recipe, crafting_input) :
          LET slot == Filled(crafting_input)[i]
          IN crafting_input[slot].size - crafting_input'[slot].size
                 = RequiredOf(recipe)[i] * each
    /\ \A slot \in DOMAIN crafting_input :
          crafting_input[slot].size = 0 => crafting_input'[slot] = crafting_input[slot]

\* C2 as claimed: if get_craftable_amount(input) returns k, craft(input, k*out_size)
\* reduces each non-empty input slot by exactly required*k and returns a stack
\* of size k*out_size.
C2_CraftTakesRequiredTimesK ==
    [][(/\ craft_call.pc = "requested"
        /\ craft_call.amount = Craftable * recipe.output.size) =>
          /\ InputReducedBy(Craftable)
          /\ craft_call'.output.size = Craftable * recipe.output.size]_vars

\* C2 amended: get_craftable_amount(input) returns k, the number of output items
\* (a multiple of out_size); if k > 0, craft(input, k) - or any larger amount -
\* reduces each non-empty input slot by exactly required*(k/out_size) and
\* returns a stack of size k; if k = 0, craft returns None and the input stays.
C2_CraftTakesRequiredPerCraft ==
    [][(/\ craft_call.pc = "requested"
        /\ craft_call.amount >= Craftable) =>
          IF Craftable > 0
          THEN /\ InputReducedBy(Craftable \div recipe.output.size)
               /\ craft_call'.output = [recipe.output EXCEPT !.size = Craftable]
               /\ Craftable % recipe.output.size = 0
          ELSE /\ crafting_input' = crafting_input
               /\ craft_call'.output = EmptyStack]_vars

\* two crafts of a recipe that yields two items per craft have been made at once
\* and have used up the grid
C2_Witness ==
    /\ craft_call.pc = "crafted"
    /\ recipe.output.size = 2
    /\ craft_call.amount = 4
    /\ craft_call.output.size = 4
    /\ \A slot \in DOMAIN crafting_input : crafting_input[slot].size = 0

\* RecipeCollection::craft finds a recipe for the grid
Matches == PatternFrom(crafting_input) = recipe.pattern

\* every slot the recipe draws from holds what one craft requires
OneCraftPossible ==
    /\ Matches
    /\ Zipped(recipe, crafting_input) # {}
    /\ \A i \in Zipped(recipe, crafting_input) :
          crafting_input[Filled(crafting_input)[i]].size >= RequiredOf(recipe)[i]

\* C12 as claimed: craft(input, amount) with amount >= 1 returns None only when
\* nothing is craftable from the input (no recipe matches, or a slot holds less
\* than the recipe requires); whenever at least one craft is possible it
\* returns an output stack and deducts the inputs.
C12_NoneOnlyWhenNothingCraftable ==
    [][(/\ craft_call.pc = "requested"
        /\ craft_call.amount >= 1) =>
          IF OneCraftPossible
          THEN /\ craft_call'.output # EmptyStack
               /\ \A i \in Zipped(recipe, crafting_input) :
                     LET slot == Filled(crafting_input)[i]
                     IN crafting_input'[slot].size
                            <= crafting_input[slot].size - RequiredOf(recipe)[i]
          ELSE /\ craft_call'.output = EmptyStack
               /\ crafting_input' = crafting_input]_vars

(***************************************************************************)
(* Claims about Pattern::from                                              *)
(***************************************************************************)
\* the item layout of a grid: which item lies in which row and column
Layout(grid) ==
    {<<(i - 1) \div TableSide, (i - 1) % TableSide, grid[i].item>> :
        i \in {j \in DOMAIN grid : grid[j].size > 0}}

\* one layout is the other moved by some rows and columns
IsShift(a, b) ==
    \E dr \in (1 - TableSide)..(TableSide - 1), dc \in (1 - TableSide)..(TableSide - 1) :
        Layout(b) = {<<cell[1] + dr, cell[2] + dc, cell[3]>> : cell \in Layout(a)}

\* C13: two 3x3 crafting grids have equal normalized patterns if and only if
\* the item layout of one is a translation of the other's.
C13_EqualIffShifted ==
    normalizing.pc = "compared" =>
        ((normalizing.pattern_a = normalizing.pattern_b)
            <=> IsShift(normalizing.a, normalizing.b))

\* two grids that differ, one a shift of the other, have been found equal
C13_Witness ==
    /\ normalizing.pc = "compared"
    /\ normalizing.a # normalizing.b
    /\ Cardinality(Layout(normalizing.a)) = 2
    /\ IsShift(normalizing.a, normalizing.b)
    /\ normalizing.pattern_a = normalizing.pattern_b

\* the grid of the example: planks at row 1, column 0 and at row 0, column 1 of
\* the 3x3 grid, whose cells lie row by row
PlanksOnDiagonal(grid) ==
    /\ Len(grid) = 9
    /\ \A i \in DOMAIN grid :
          grid[i] = IF i \in {2, 4} THEN [item |-> "planks", size |-> 1] ELSE EmptyStack

\* C14: normalization is idempotent - the pattern of a grid, placed back into a
\* square grid and normalized again, is the same pattern - and the 3x3 grid
\* with planks only at (1,0) and (0,1) normalizes to the 2x2 pattern
\* [[None, plank], [plank, None]].
C14_NormalizeIdempotent ==
    /\ normalizing.pc = "renormalized" => normalizing.again = normalizing.pattern_a
    /\ (normalizing.pc \notin {"idle", "input"} /\ PlanksOnDiagonal(normalizing.a)) =>
          normalizing.pattern_a = << <<"none", "planks">>, <<"planks", "none">> >>

\* the example's pattern has been placed elsewhere in the grid and normalized again
C14_Witness ==
    /\ normalizing.pc = "renormalized"
    /\ PlanksOnDiagonal(normalizing.a)
    /\ normalizing.placed # normalizing.a
    /\ Len(normalizing.again) = 2

(***************************************************************************)
(* Claims about dropped items.  They are stated on the runs of item_pickup: *)
(* the step's first state is what the run reads, pickup_log in its second   *)
(* state what the run did.                                                  *)
(***************************************************************************)
\* the step is a run of item_pickup: no time passes, no item moves
IsPickupRun ==
    /\ now' = now
    /\ \A id \in DroppedIds : dropped_items'[id].position = dropped_items[id].position

\* the run set the item's velocity towards the player
Pulled(id, p) == <<id, p>> \in pickup_log'.pulls

\* the run moved items of the dropped stack into the player's inventory
Transferred(id, p) ==
    \E t \in pickup_log'.transfers : t.item = id /\ t.player = p /\ t.left # t.dropped

DelayElapsed(id) ==
    now - dropped_items[id].drop_time >= dropped_items[id].pickup_delay

\* C15 as claimed: a dropped item is never pulled toward a player or
\* transferred into an inventory before its pickup delay (0.5 s by default) has
\* elapsed since it was dropped, and never by a dead player or a player 2 m or
\* more away.
C15_PickupDelayAndPlayerRange ==
    [][IsPickupRun =>
          \A id \in DroppedIds, p \in Players :
             (Pulled(id, p) \/ Transferred(id, p)) =>
                /\ DelayElapsed(id)
                /\ ~pickers[p].dead
                /\ (dropped_items[id].position - pickers[p].position)
                     * (dropped_items[id].position - pickers[p].position) < 400]_vars

\* C15 amended: never before the pickup delay has elapsed, never by a dead
\* player, and never by a player whose pull point - the player's position plus
\* 0.8 times the camera's offset - is 2 m or more from the item; the player's
\* own position may be further away than 2 m.
C15_PickupDelayAndTorsoRange ==
    [][IsPickupRun =>
          \A id \in DroppedIds, p \in Players :
             (Pulled(id, p) \/ Transferred(id, p)) =>
                LET torso == pickers[p].position + (8 * pickers[p].camera) \div 10
                IN /\ DelayElapsed(id)
                   /\ dropped_items[id].pickup_delay = 500
                   /\ ~pickers[p].dead
                   /\ (dropped_items[id].position - torso)
                        * (dropped_items[id].position - torso) < 400]_vars

\* an item two and a half metres above the feet of a player has been pulled by
\* that player the moment its delay had elapsed, the other player being dead
C15_Witness ==
    /\ now = 500
    /\ <<1, "a">> \in pickup_log.pulls
    /\ dropped_items[1].position = 25
    /\ pickers["a"].camera = 15
    /\ pickers["b"].dead
    /\ pickup_log.transfers = {}

\* what a slot gained in a transfer the log holds
Gained(t, k) == t.after[k].size - t.before[k].size

\* the slot has all it can hold of the dropped item
FullAfter(t, k) == t.after[k].size = Capacity(t.dropped.item)

\* slots that held the dropped item before the transfer, and those that were empty
SameBefore(t) == {k \in DOMAIN t.before : /\ t.before[k].size > 0
                                          /\ t.before[k].item = t.dropped.item}

EmptyBefore(t) == {k \in DOMAIN t.before : t.before[k].size = 0}

\* C16: when a dropped stack is picked up, its items first merge into the
\* inventory stacks already holding the same item, in slot order (a matching
\* first slot grows by the dropped size, up to capacity), and only the
\* remainder goes into empty slots; as many items are added to the inventory
\* as are removed from the dropped stack; the dropped entity is despawned
\* exactly when its stack becomes empty.
C16_MergeThenFillEmpty ==
    /\ \A id \in DOMAIN dropped_items :
          dropped_items[id].alive <=> dropped_items[id].stack.size > 0
    /\ \A t \in pickup_log.transfers :
          LET item == t.dropped.item
              removed == t.dropped.size - t.left.size
          IN /\ Count(t.after, item) - Count(t.before, item) = removed
             /\ \A k \in DOMAIN t.before :
                   IF k \in SameBefore(t) \cup EmptyBefore(t)
                   THEN /\ Gained(t, k) >= 0
                        /\ Gained(t, k) > 0 => t.after[k].item = item
                        /\ t.after[k].size <= Capacity(item)
                   ELSE t.after[k] = t.before[k]
             /\ \A k \in EmptyBefore(t) :
                   Gained(t, k) > 0 => \A j \in SameBefore(t) : FullAfter(t, j)
             /\ \A j, k \in SameBefore(t) :
                   (j < k /\ Gained(t, k) > 0) => FullAfter(t, j)
             /\ \A j, k \in EmptyBefore(t) :
                   (j < k /\ Gained(t, k) > 0) => FullAfter(t, j)
             /\ t.left.size > 0 =>
                   \A k \in SameBefore(t) \cup EmptyBefore(t) : FullAfter(t, k)
             /\ 1 \in SameBefore(t) =>
                   t.after[1].size = Min(Capacity(item), t.before[1].size + t.dropped.size)
             /\ (t.left.size = 0) <=> (t.item \in pickup_log.despawns)

\* a dropped stack of two planks went to a stack of planks in the third slot
\* and to the empty first slot, and its entity was despawned
C16_Witness ==
    \E t \in pickup_log.transfers :
        /\ t.dropped = [item |-> "planks", size |-> 2]
        /\ t.before[1] = EmptyStack
        /\ t.before[3] = [item |-> "planks", size |-> 1]
        /\ t.after[1] = [item |-> "planks", size |-> 1]
        /\ t.after[3] = [item |-> "planks", size |-> 2]
        /\ t.item \in pickup_log.despawns
        /\ ~dropped_items[t.item].alive

(***************************************************************************)
(* Claims about the path finder                                            *)
(***************************************************************************)
Halts == (search.pc # "done") ~> (search.pc = "done")

\* the blocks a direct walk from start to goal crosses: one per grid line
DirectWalkLength ==
    Abs(search.goal[1] - search.start[1]) + Abs(search.goal[3] - search.start[3])

\* C4 as claimed: find_path halts on every input, and the path it leaves behind
\* has at most 25 + direct_walk_length nodes.
C4_PathWithinDirectWalk ==
    /\ Halts
    /\ [](search.pc = "done" =>
            Len(path_finder.path) <= RoundaboutLimit + DirectWalkLength)

\* C4 amended: find_path halts on every input; a direct walk that reaches the
\* goal leaves a path of one node, and the search leaves a path of at most
\* 25 + n nodes, n being the number of expansions that improved the best known
\* cost - those are not limited by the roundabout counter.
C4_PathWithinImprovements ==
    /\ Halts
    /\ [](search.pc = "done" =>
            /\ Len(path_finder.path) <= RoundaboutLimit + search.improvements
            /\ search.node_map = <<>> => Len(path_finder.path) <= 1)

\* the search gave up in a corridor and left the path to the best node it saw
C4_Witness ==
    /\ search.pc = "done"
    /\ IsCorridor(world_map)
    /\ search.roundabout_limit > RoundaboutLimit
    /\ Len(path_finder.path) > 0

(***************************************************************************)
(* Claims about equipping                                                  *)
(***************************************************************************)
\* how many of the unread messages a run of equip_item reads: up to and with
\* the first one that is not for the hotbar
EquipRead ==
    LET others == {i \in DOMAIN equip_events :
                      equip_events[i].interface_path # "hotbar"}
    IN IF others = {} THEN Len(equip_events) ELSE SetMin(others)

\* the hotbar messages of a player that the run reads, with an index the hotbar has
EquipSets(p) ==
    {i \in 1..EquipRead : /\ equip_events[i].interface_path = "hotbar"
                          /\ equip_events[i].player_entity = p
                          /\ equip_events[i].index <= 8}

\* and those with an index past the hotbar
EquipRejects(p) ==
    {i \in 1..EquipRead : /\ equip_events[i].interface_path = "hotbar"
                          /\ equip_events[i].player_entity = p
                          /\ equip_events[i].index >= 9}

\* C11: the equipped index of an inventory is always in 0..8, so that
\* held_item_stack() reads a hotbar slot; a run of equip_item sets it to the
\* index of the player's last hotbar message with index <= 8, and a hotbar
\* message with index >= 9 disconnects its sender and leaves the index as it is.
C11_EquippedInHotbar ==
    /\ [](\A p \in Players : /\ equipped_item[p] \in 0..8
                             /\ equipped_item[p] + 1 \in 1..HotbarSize)
    /\ [][Len(equip_events') <= Len(equip_events) =>
            \A p \in Players :
               /\ equipped_item'[p] =
                     IF EquipSets(p) = {} THEN equipped_item[p]
                     ELSE equip_events[SetMax(EquipSets(p))].index
               /\ p \in disconnected' <=>
                     (p \in disconnected \/ EquipRejects(p) # {})]_vars

\* one player has equipped the last hotbar slot, the other was disconnected for
\* an index past the hotbar and holds the slot it held
C11_Witness ==
    /\ equipped_item["a"] = 8
    /\ disconnected = {"b"}
    /\ equipped_item["b"] = 0
    /\ equip_events = <<>>

\* the path holds the position
Visits(position) == \E i \in DOMAIN path_finder.path : path_finder.path[i] = position

\* find_path has returned in the world with the wall
WalledDone == IsWalled(world_map) /\ search.pc = "done"

\* C17 as claimed: on flat solid ground with start (0,64,0), goal (5,64,0) and
\* solid blocks at (2,64,0) and (2,65,0), find_path produces a path that visits
\* (1,64,1) or (1,64,-1), reaches the goal, and has at most 10 steps.
C17_AroundTheWallBeside ==
    WalledDone =>
        /\ Visits(<<1, 64, 1>>) \/ Visits(<<1, 64, -1>>)
        /\ Visits(<<5, 64, 0>>)
        /\ Len(path_finder.path) <= 10

\* C17 amended: the path goes from the start to (1,64,0), passes the wall on a
\* diagonal through (2,64,1) or (2,64,-1) and goes on through (3,64,0) and
\* (4,64,0) to the goal, five nodes with the goal first; it visits neither
\* (1,64,1) nor (1,64,-1).
C17_AroundTheWallDiagonally ==
    WalledDone =>
        /\ search.start = <<0, 64, 0>> /\ search.goal = <<5, 64, 0>>
        /\ \E z \in {1, -1} :
              path_finder.path = << <<5, 64, 0>>, <<4, 64, 0>>, <<3, 64, 0>>,
                                    <<2, 64, z>>, <<1, 64, 0>> >>
        /\ ~Visits(<<1, 64, 1>>) /\ ~Visits(<<1, 64, -1>>)

\* the search has found the goal behind the wall
C17_Witness ==
    /\ WalledDone
    /\ search.node_map # <<>>
    /\ Visits(<<5, 64, 0>>)
    /\ Visits(<<2, 64, -1>>)

(***************************************************************************)
(* Claims about next_node.  The step of a call leaves the mob where it is   *)
(* and marks the call.                                                      *)
(***************************************************************************)
IsNextNodeCall == follower'.called /\ follower'.position = follower.position

\* the call keeps the first `kept` points of the path: the points behind them
\* were nearer than `distance_squared` (in sixteenths) in x and z and are gone,
\* the last point kept is not nearer and is returned; None if no point is kept
ConsumesInReverse(distance_squared) ==
    LET path == path_finder.path
        current == follower.position
    IN \E kept \in 0..Len(path) :
          /\ path_finder'.path = SubSeq(path, 1, kept)
          /\ \A i \in (kept + 1)..Len(path) :
                DistanceSquaredXZ(path[i], current) < distance_squared
          /\ IF kept = 0 THEN follower'.returned = <<>>
             ELSE /\ DistanceSquaredXZ(path[kept], current) >= distance_squared
                  /\ follower'.returned = <<path[kept]>>

\* C18 as claimed: next_node consumes the stored path from its last element:
\* it discards every point whose horizontal (x,z) distance to the caller's
\* position is below 0.25 and returns, without removing it, the first point at
\* or beyond that distance; a discarded point is never returned again, and None
\* is returned once the path is empty.  A distance of 0.25 is one quarter, its
\* square one sixteenth.
C18_SkipsBelowQuarter ==
    [][IsNextNodeCall => ConsumesInReverse(1)]_vars

\* C18 amended: the points discarded are those whose squared horizontal
\* distance is below 0.5 (eight sixteenths), a distance of about 0.71; the
\* first point with a squared distance of 0.5 or more is returned and kept.
C18_SkipsBelowHalfSquared ==
    [][IsNextNodeCall => ConsumesInReverse(8)]_vars

\* a call has discarded a point half a block away and returned the one before
\* it, which lies at a squared distance of exactly one half
C18_Witness ==
    /\ follower.called
    /\ follower.position = <<0, 0, 0>>
    /\ follower.returned = << <<2, 0, 2>> >>
    /\ Len(path_finder.path) = MaxPath - 1

(***************************************************************************)
(* Claims about health.                                                     *)
(***************************************************************************)
\* what the calls of the last frame did to a Health whose maximum is max
Saturated(ops, max) ==
    \A i \in DOMAIN ops :
       /\ ops[i].hearts \in 0..max
       /\ (ops[i].op = "heal" /\ ops[i].amount = U32Max) => ops[i].hearts = max
       /\ (ops[i].op = "damage" /\ ops[i].amount = U32Max) => ops[i].hearts = 0

TimerFinishes == mob_log'.finished

\* a damage event was applied in the frame
Damaged(log) == \E i \in DOMAIN log.ops : log.ops[i].op = "damage"

HasSound(log, sound) == \E i \in DOMAIN log.sounds : log.sounds[i] = sound

\* the timer finishes on a living mob: the mob stays, its colour is reset and
\* it takes damage again - it has no timer left, or that of a damage of this
\* very frame
FinishesAlive ==
    (TimerFinishes /\ ~mob_log'.dead) =>
        /\ ~mob'.despawned
        /\ mob'.color = "white"
        /\ \/ mob'.invincibility = <<>>
           \/ Damaged(mob_log') /\ mob'.invincibility = <<from_seconds(INVINCIBILITY_TIME)>>

\* C20 as claimed: when a mob's invincibility timer finishes while the mob is
\* dead, the mob is despawned and its death sound is emitted at that moment;
\* when it finishes while the mob is alive, the mob is not despawned, its colour
\* is reset and it can be damaged again.
C20_DeathSoundAtTimerEnd ==
    [][/\ (TimerFinishes /\ mob_log'.dead) =>
             /\ mob'.despawned
             /\ mob.sounds = "full" => HasSound(mob_log', "death")
       /\ FinishesAlive]_vars

\* C20 amended: a dead mob is despawned when its timer finishes, and no sound
\* is emitted then unless a damage event is applied in that frame; the death
\* sound is emitted by the frame that applies a damage leaving the mob dead, if
\* the mob has death sounds.  A living mob is as claimed.
C20_DeathSoundAtFatalDamage ==
    [][/\ (TimerFinishes /\ mob_log'.dead) =>
             /\ mob'.despawned
             /\ Damaged(mob_log') \/ mob_log'.sounds = <<>>
       /\ FinishesAlive
       /\ HasSound(mob_log', "death")
             <=> /\ Damaged(mob_log')
                 /\ is_dead(mob'.health)
                 /\ mob.sounds \in {"full", "no_damage"}]_vars

\* the timer of a dead mob that has death sounds has finished in a frame
\* without damage events: the mob is despawned in silence
C20_Witness ==
    /\ mob_log.finished /\ mob_log.dead
    /\ mob.despawned
    /\ mob.sounds = "full"
    /\ mob_log.ops = <<>>
    /\ mob_log.sounds = <<>>

(***************************************************************************)
(* Claims about the blueprints.                                             *)
(***************************************************************************)
\* a height distribution with parameters out of range
OutOfRange(d) ==
    \/ d.type = "triangle" /\ (d.min > d.mid \/ d.mid > d.max)
    \/ d.type # "none" /\ d.max < d.min
    \/ d.type # "none" /\ (d.probability < 0 \/ d.probability > 100)

\* a blueprint that references, at any depth, a blueprint or a block that is
\* not there, or has a distribution out of range
RECURSIVE Offending(_, _)
Offending(blueprint, named_blueprints) ==
    \/ \E i \in DOMAIN blueprint.blocks : blueprint.blocks[i] \notin KnownBlocks
    \/ OutOfRange(blueprint.distribution)
    \/ \E i \in DOMAIN blueprint.blueprints :
          LET sub == blueprint.blueprints[i]
          IN IF sub.named # None THEN sub.named[1] \notin DOMAIN named_blueprints
             ELSE Offending(sub.inline[1], named_blueprints)

\* C21: blueprint loading refuses to start with a blueprint set that references
\* an unknown blueprint or block name, or whose height distribution has
\* parameters out of range (min > mid, mid > max, max < min, or a probability
\* outside 0..1), also when the offending blueprint is nested inside a
\* Collection or Distribution and its other fields are valid: no such set is
\* ever loaded.
C21_OffendingBlueprintsRejected ==
    blueprints.pc = "loaded" =>
        \A name \in DOMAIN blueprints.named :
           ~Offending(blueprints.named[name], blueprints.named)

(***************************************************************************)
(* Claims about generated chunks.                                           *)
(***************************************************************************)
Generated == earth.pc = "generated"

Identical(blocks) == \A i \in DOMAIN blocks, j \in DOMAIN blocks : blocks[i] = blocks[j]

\* C22 as claimed: the chunk returned by generate_chunk uses the uniform
\* encoding if and only if all of its blocks are identical, whatever the block.
C22_UniformIffIdentical ==
    Generated => (earth.chunk.uniform # None <=> Identical(earth.chunk.blocks))

\* C22 amended: the chunk returned uses the uniform encoding if and only if it
\* lies above MAX_HEIGHT or the terrain generated for it is all air; a uniform
\* chunk is all air, and a chunk whose blocks are all one other block keeps the
\* full encoding.
C22_UniformIffAllAir ==
    Generated =>
        /\ earth.chunk.uniform # None
              <=> \/ earth.chunk_position > MAX_HEIGHT
                  \/ \A i \in DOMAIN earth.terrain : earth.terrain[i] = "air"
        /\ earth.chunk.uniform # None =>
              /\ earth.chunk.uniform = Some("air")
              /\ \A i \in DOMAIN earth.chunk.blocks : earth.chunk.blocks[i] = "air"

\* a chunk of the bottom layer's block alone is returned in the full encoding
C22_Witness ==
    /\ Generated
    /\ earth.chunk.uniform = None
    /\ \A i \in DOMAIN earth.chunk.blocks : earth.chunk.blocks[i] = "bottom_layer_block"

(***************************************************************************)
(* Claims about the blocks of the terrain.                                  *)
(***************************************************************************)
\* world height of the cell with index i of the column
HeightOf(i) == earth.chunk_position + i - 1

SolidCell(i) == earth.solid[i]

LayerBlocks == {"top_layer_block", "mid_layer_block", "bottom_layer_block"}

\* C30 as claimed: a solid cell is given sand only when its world height y
\* satisfies |y| < 2 and the column's continent_height is <= 2; solid cells
\* outside that band get the top, mid or bottom layer block.
C30_SandWithinTwoOfSea ==
    Generated =>
        \A i \in DOMAIN earth.terrain :
           /\ earth.terrain[i] = "sand" =>
                 /\ SolidCell(i)
                 /\ HeightOf(i) < 2 /\ HeightOf(i) > -2
                 /\ earth.continent_height <= 2
           /\ (SolidCell(i) /\ earth.terrain[i] # "sand") => earth.terrain[i] \in LayerBlocks

\* C30 amended: a solid cell is given sand only when its world height y
\* satisfies -13 < y < 2 and the column's continent_height is <= 2; in that
\* band a solid cell is sand or, deep under the surface, the bottom layer's
\* block; solid cells outside the band get the top, mid or bottom layer block.
C30_SandFromMinusTwelve ==
    Generated =>
        \A i \in DOMAIN earth.terrain :
           /\ earth.terrain[i] = "sand" =>
                 /\ SolidCell(i)
                 /\ HeightOf(i) < 2 /\ HeightOf(i) > -13
                 /\ earth.continent_height <= 2
           /\ (SolidCell(i) /\ earth.terrain[i] # "sand") => earth.terrain[i] \in LayerBlocks
           /\ (SolidCell(i) /\ HeightOf(i) < 2 /\ HeightOf(i) > -13
                  /\ earth.continent_height <= 2)
                 => earth.terrain[i] \in {"sand", "bottom_layer_block"}

\* a solid cell 12 below the sea is sand
C30_Witness ==
    /\ Generated
    /\ \E i \in DOMAIN earth.terrain :
          /\ SolidCell(i)
          /\ HeightOf(i) = -12
          /\ earth.terrain[i] = "sand"

(***************************************************************************)
(* Claims about the movement plugin.                                       *)
(***************************************************************************)
\* a solid block whose collider the player's Aabb overlaps by more than
\* `limit` on y
Embedded(limit) ==
    LET positions == BlockPositionsAt(mover.translation)
    IN \E i \in DOMAIN positions :
          LET kind == GetBlock(SceneBlocks(mover.scene), positions[i])
              overlap == Intersection(mover.translation, positions[i], kind)
          IN /\ kind \in {"stone", "slab"}
             /\ overlap # None
             /\ Magnitude(overlap[1][1]) > limit

\* C23, as stated: a collision step that meets a block that cannot be looked up
\* leaves the position, the velocity, the is_grounded flags, is_swimming and
\* climbing as they were before the step.  The code does not keep this.
C23_AbortedStepMutatesNothing ==
    mover.step.aborted =>
        /\ mover.translation = mover.step.from
        /\ mover.properties.velocity = mover.step.before.velocity
        /\ mover.properties.is_grounded = mover.step.before.is_grounded
        /\ mover.properties.is_swimming = mover.step.before.is_swimming
        /\ mover.properties.climbing = mover.step.before.climbing

\* C24, as stated: after every update, while is_grounded.y is true the
\* player's Aabb overlaps no solid collider by more than the step-up threshold
\* on y.  The code does not keep this.
C24_GroundedNeverEmbedded ==
    (mover.ticks > 0 /\ mover.properties.is_grounded[1]) => ~Embedded(StepUp)

\* the player of the scenario: spawned at the origin before the full block at
\* (0, 0, 1), never jumped
WalksAtWall == mover.scene = "wall" /\ mover.spawn = <<0, 0>> /\ mover.jumps = <<>>

HalfSecond == SecondUnits \div (2 * DeltaTime)

\* C25, as stated: holding only W, the player stands on the block after 0.5 s,
\* its y about 1.0 and its z above 1.0.
C25_CarriedOntoFullBlock ==
    (WalksAtWall /\ mover.pressed_keys = {"KeyW"} /\ mover.ticks = HalfSecond) =>
        /\ mover.translation[1] >= 900
        /\ mover.translation[1] <= 1100
        /\ mover.translation[2] > 1000

\* C25, amended: the full block stops the player, whose y stays below one soft
\* step and whose Aabb never passes the face of the block at z = 1.0.
C25_StoppedByFullBlock ==
    WalksAtWall =>
        /\ mover.translation[1] <= SoftStep
        /\ mover.translation[2] + PlayerHalf[2] <= 1000

C25_Witness ==
    /\ WalksAtWall
    /\ mover.pressed_keys = {"KeyW"}
    /\ mover.ticks = HalfSecond
    /\ mover.properties.is_grounded = <<TRUE, TRUE>>
    /\ mover.translation[2] + PlayerHalf[2] >= 990

\* C26: an update sets the jump velocity exactly when Space is held, the
\* player does not swim, is_grounded.y is true and last_jump is above JUMP_TIME;
\* it then sets last_jump to 0, and two jumps are more than JUMP_TIME apart.
C26_JumpsApart ==
    /\ mover.step.jumped <=>
          /\ mover.ticks > 0
          /\ "Space" \in mover.pressed_keys
          /\ ~mover.step.timed.is_swimming
          /\ mover.step.timed.is_grounded[1]
          /\ mover.step.timed.last_jump > JUMP_TIME
    /\ mover.step.jumped =>
          /\ mover.step.before.velocity[1] = JUMP_VELOCITY
          /\ mover.step.before.last_jump = 0
    /\ ~mover.step.jumped => mover.step.before.velocity = mover.step.timed.velocity
    /\ \A i \in 1..(Len(mover.jumps) - 1) :
          (mover.jumps[i + 1] - mover.jumps[i]) * DeltaTime > JUMP_TIME

C26_Witness == Len(mover.jumps) = 2 /\ mover.step.jumped

(***************************************************************************)
(* Claims about block states.                                              *)
(***************************************************************************)
\* the yaw, in quarter turns, of the low two bits of a block state
QuadrantYaw(state) == IF state % 4 = 3 THEN -1 ELSE state % 4

\* C27: a block state with bit 2 set decodes to the identity; otherwise the
\* low two bits 0, 1, 2, 3 decode to a yaw of 0, 90, 180, -90 degrees about Y,
\* and two such states that decode to the same rotation have the same quadrant.
C27_QuadrantRecoverable ==
    /\ \A i \in DOMAIN decoder.states :
          decoder.rotations[i] = IF (decoder.states[i] \div 4) % 2 = 1 THEN IDENTITY
                                 ELSE from_rotation_y(QuadrantYaw(decoder.states[i]))
    /\ \A i, j \in DOMAIN decoder.states :
          (/\ Upright(decoder.states[i])
           /\ Upright(decoder.states[j])
           /\ decoder.rotations[i] = decoder.rotations[j])
              => decoder.states[i] % 4 = decoder.states[j] % 4

C27_Witness ==
    /\ Len(decoder.states) = 2
    /\ decoder.states[1] % 8 = 3
    /\ decoder.states[2] % 8 = 1
    /\ decoder.rotations[1] # decoder.rotations[2]

(***************************************************************************)
(* Claims about giving up the search.                                      *)
(***************************************************************************)
\* C28: a pop of the A* search that does not lower the best cost seen adds one
\* to the roundabout counter and any other pop leaves it; once the counter is
\* above 25 the search is over and the path is the chain from the best node
\* seen back to the start, without the start.
C28_RoundaboutStops ==
    [][(search.pc = "search" /\ search.queue # {}) =>
          /\ search'.roundabout_limit =
                IF search'.best_node_cost < search.best_node_cost
                THEN search.roundabout_limit
                ELSE search.roundabout_limit + 1
          /\ search'.roundabout_limit > RoundaboutLimit =>
                LET chain == Chain(search'.node_map, search'.best_node_index)
                IN /\ search'.pc = "done"
                   /\ path_finder'.path = SubSeq(chain, 1, Len(chain) - 1)
                   /\ search'.roundabout_limit = RoundaboutLimit + 1]_vars

C28_Witness ==
    /\ search.pc = "done"
    /\ search.roundabout_limit > RoundaboutLimit
    /\ search.best_node_index # 0
    /\ Len(path_finder.path) >= 1

(***************************************************************************)
(* Claims about the zombie's target.                                       *)
(***************************************************************************)
\* C29: after hunt_player has processed a visible zombie its target is none or
\* a connected player in Survival mode within 10 m, whoever hit the zombie.
C29_TargetIsHuntable ==
    (hunt.processed /\ hunt.target # None) =>
        LET player == hunt.players[hunt.target[1]]
        IN /\ player.connected
           /\ player.game_mode = "Survival"
           /\ player.distance * player.distance <= HuntRangeSquared

\* a target that went beyond 10 m and hit the zombie from there was dropped by
\* the run that followed
C29_Witness ==
    /\ hunt.processed
    /\ hunt.before # None
    /\ hunt.read = {hunt.before[1]}
    /\ hunt.target = None
    /\ hunt.players[hunt.before[1]].connected
    /\ hunt.players[hunt.before[1]].game_mode = "Survival"
    /\ hunt.players[hunt.before[1]].distance = 11

(***************************************************************************)
(* Claims about torches.                                                   *)
(***************************************************************************)
\* C31, as stated: fragile_break replaces a torch by air and drops one item
\* exactly when the block it is attached to was removed; a change that leaves a
\* block there breaks no torch.  The code does not keep this.
C31_BreaksOnlyOnRemoval ==
    fragile.ran =>
        /\ \A i \in DOMAIN Sides :
              i \in fragile.broken <=>
                 /\ fragile.last.around[i].id = "torch"
                 /\ fragile.last.around[i].state = Some(SideRotation(Sides[i]))
                 /\ fragile.last.to = "air"
        /\ fragile.drops = Cardinality(fragile.broken)

(***************************************************************************)
(* Claims about the breaking overlay.                                      *)
(***************************************************************************)
\* the highest stage whose threshold the progress is above, 0 if none
StageOf(progress) == SetMax({0} \cup {k \in 1..Stages : progress > k * StageStep})

\* C32, as stated: once the progress of a block is above 0.1 the overlay is
\* visible, and its texture is the stage of the highest threshold the progress
\* is above, also after a hit that crossed several thresholds.  The code does
\* not keep this.
C32_OverlayShowsStage ==
    (breaking.pc = "breaking" /\ breaking.progress > StageStep) =>
        /\ breaking.visible
        /\ breaking.texture = StageOf(breaking.progress)

(***************************************************************************)
(* Claims about the mob map.                                               *)
(***************************************************************************)
\* C33, as stated: after update_mob_map an entity is in position2entities[c]
\* exactly if entity2position[entity] is c, and no unwrap of insert_or_move or
\* remove has panicked.  The code does not keep this.
C33_IndexesAgree ==
    /\ ~mobs.panicked
    /\ \A entity \in DOMAIN mobs.chunks, c \in MapChunks :
          (c \in DOMAIN mobs.map.position2entities
             /\ entity \in mobs.map.position2entities[c])
          <=> (entity \in DOMAIN mobs.map.entity2position
                 /\ mobs.map.entity2position[entity] = c)

(***************************************************************************)
(* A run of item_pickup and the items it leaves behind.                     *)
(***************************************************************************)
\* the item lies less than 2 m from the point the player pulls items to
InReach(id, p) == DistanceSquared(dropped_items[id], pickers[p]) < PullRange

\* the player's inventory has room for the item, before the run and after it:
\* what the run put into the inventory did not use the room up
HasRoom(id, p) ==
    /\ HasCapacity(pickers[p].inventory, dropped_items[id].stack)
    /\ HasCapacity(pickers'[p].inventory, dropped_items[id].stack)

\* C34: in any run of item_pickup, every dropped item that is within 2 m of a
\* living player, past its pickup delay, and for which the player's inventory
\* has room is pulled toward that player, whatever other dropped items are
\* nearby and whether those fit.
C34_EveryFittingItemPulled ==
    [][IsPickupRun =>
          \A id \in DroppedIds, p \in Players :
             (/\ dropped_items[id].alive
              /\ id \notin pickup_log'.despawns
              /\ ~pickers[p].dead
              /\ DelayElapsed(id)
              /\ InReach(id, p)
              /\ HasRoom(id, p))
                => Pulled(id, p)]_vars

(***************************************************************************)
(* The slots an interface node reaches.                                    *)
(***************************************************************************)
\* the slots with these indexes (counted from 0, as the messages do) are left
\* as they were
Untouched(indexes) == \A i \in indexes : slots'[i + 1] = slots[i + 1]

\* C35: interface events addressed to the hotbar node only ever change
\* inventory slots 0..8, events addressed to the inventory node only ever
\* change slots 9..35; an index outside the node's range is ignored.
C35_NodesKeepToTheirSlots ==
    [][/\ handle_hotbar_events => Untouched(HotbarSize..(InventoryCapacity - 1))
       /\ handle_inventory_events => Untouched(0..(HotbarSize - 1))]_vars

(***************************************************************************)
(* The zombies that deal damage.                                           *)
(***************************************************************************)
\* C36: a zombie that is dead (waiting out its post-death timer) or hidden for
\* daytime never emits a PlayerDamageEvent; only a living, visible zombie
\* within 2 m of its target deals damage.
C36_OnlyLivingVisibleZombiesAttack ==
    \A event \in attacking.events :
        /\ ~event.dead
        /\ event.visible
        /\ event.distance * event.distance < AttackRangeSquared

(***************************************************************************)
(* Who is respawned.                                                       *)
(***************************************************************************)
\* C37: a respawn (teleport to the spawn point plus full heal) is only ever
\* triggered for a player who is dead or who joins without a save; a living
\* player cannot obtain one by sending a button interaction to the death
\* interface.
C37_RespawnOnlyDeadOrNew ==
    \A k \in DOMAIN respawning.respawned :
        \/ respawning.respawned[k].writer = "add_players"
        \/ respawning.respawned[k].hearts = 0

(***************************************************************************)
(* The stages of the wheat.                                                *)
(***************************************************************************)
\* C38: wheat grows one stage at a time: a wheat at stage s < 6 whose grow
\* timer fires requests a swap to the block registered for stage s+1, every
\* requested block is one of wheat_0..wheat_6, and a wheat at stage 6 never
\* changes again.
C38_OneStageAtATime ==
    /\ (wheat.fired /\ wheat.before < LastStage) => wheat.swap = Some(wheat.before + 1)
    /\ wheat.swap # None => wheat.swap[1] \in 0..LastStage
    /\ wheat.before = LastStage => wheat.swap = None

(***************************************************************************)
(* The registries of the blocks with an interface.                         *)
(***************************************************************************)
\* the blocks of a registry that list the player
BlocksOf(registry, p) ==
    {x \in DOMAIN registry.block_to_players : p \in registry.block_to_players[x]}

\* C39: in the chest, furnace and crafting-table registries the two maps always
\* agree: after any sequence of set-active and remove calls, player p is in
\* x_to_players[x] if and only if player_to_x[p] == x, each player is registered
\* with at most one block of a kind, and set-active never hits a missing entry.
C39_RegistriesAgree ==
    \A kind \in RegistryKinds :
        LET registry == registries[kind]
        IN /\ ~registry.panicked
           /\ \A p \in Players :
                 /\ \A x \in BlockEntities :
                       x \in BlocksOf(registry, p)
                          <=> (/\ p \in DOMAIN registry.player_to_block
                               /\ registry.player_to_block[p] = x)
                 /\ Cardinality(BlocksOf(registry, p)) <= 1

\* a player went from the first chest to the second, where the other player is
C39_Witness ==
    /\ 1 \in DOMAIN registries["chest"].block_to_players
    /\ registries["chest"].block_to_players[1] = {}
    /\ 2 \in DOMAIN registries["chest"].block_to_players
    /\ registries["chest"].block_to_players[2] = Players
    /\ DOMAIN registries["furnace"].player_to_block = {"a"}
    /\ DOMAIN registries["furnace"].block_to_players = {1}

(***************************************************************************)
(* The fuel a furnace burns.                                               *)
(***************************************************************************)
\* C40: a furnace consumes fuel only when it is cold (heat == 0) and its
\* crucible matches a smelting recipe, and then exactly one fuel item at a
\* time; fuel is never taken while the furnace is still hot or while the
\* crucible holds nothing smeltable, and heat never becomes negative.
C40_FuelOnlyWhenColdAndSmeltable ==
    [][/\ smelting'.furnace.heat >= 0
       /\ Len(smelting'.takes) <= 1
       /\ \A k \in DOMAIN smelting'.takes :
             /\ smelting'.takes[k].heat = 0
             /\ smelting'.takes[k].smeltable
             /\ smelting'.takes[k].amount = 1
       /\ smelting'.ran = "furnace" =>
             /\ smelting'.furnace.fuel.size
                   = smelting.furnace.fuel.size - Len(smelting'.takes)
             /\ smelting'.takes # <<>> =>
                   /\ Smeltable(smelting.furnace.crucible)
                   /\ smelting.furnace.heat - SetMax(DeltaSecs) <= 0]_vars

\* a burning furnace ran out of heat with ore left and took the next coal
C40_Witness ==
    /\ smelting.ran = "furnace"
    /\ smelting.takes # <<>>
    /\ smelting.furnace.heat = FuelHeat
    /\ smelting.furnace.fuel = EmptyStack

====
